---- MODULE Spec2Model ----
(***************************************************************************)
(* pgopher: backup lifecycle coordinator.                                  *)
(*                                                                         *)
(* Spec     the daemon's scheduler (cron fires of a local and a remote     *)
(*          entry), the backup producer with its pg_dump child process,    *)
(*          and restore commands running as separate processes, all        *)
(*          sharing the advisory restore lock file.                        *)
(* LockFairSpec  the lock protocol with the fairness the restore command's *)
(*          retry loop has.                                                *)
(* RetSpec  configuration validation followed by retention passes over an  *)
(*          arbitrary backup directory.                                    *)
(* LocalSpec  fires of the local entry over an arbitrary backup directory  *)
(*          and every configuration the loaders can produce.               *)
(* SchedSpec  the scheduler's life: Start over a schedule configuration,   *)
(*          concurrent fires, notification goroutines, Stop.               *)
(* EnvSpec  the remote operations of one process and the rclone            *)
(*          environment variables they set.                                *)
(***************************************************************************)
EXTENDS Integers, Sequences, FiniteSets, TLC

VARIABLES
    holder,       \* owner of the OS lock on restore.lock: "none", "daemon" or a restore process
    rpc,          \* restore command: position of each restore process
    waited,       \* restore command: LockForRestore has slept at least once in this call
    fpc,          \* scheduler: position of each schedule entry's fire
    fired,        \* scheduler: number of cron fires of each entry so far
    outcome,      \* scheduler: what the last fire of each entry logged
    runningJobs,  \* Scheduler.runningJobs
    child,        \* pg_dump child process of each fire
    written,      \* bytes pg_dump has written to its stdout in this run
    ctxDone,      \* the fire's context deadline has expired
    result,       \* what backup.Local.Run returned to the fire
    path,         \* output path computed by backup.Local.Run for the fire
    disk,         \* the filesystem: output directory and temp directory
    now,          \* wall clock
    retention,    \* config.RetentionConfig of the local backup
    cfgState,     \* configuration: "loaded", "valid" or "rejected"
    selected,     \* last retention pass: candidates selected for removal, in order
    removed,      \* last retention pass: candidates actually removed, in order
    applied,      \* last retention pass: the policies it consulted
    passes,       \* number of retention passes that went through findBackups
    failed,       \* last retention pass: selected candidates os.Remove failed on
    retErr,       \* the last retention.Local.Run returned an error
    dbName,       \* config.Database.Name, as a sequence of characters
    schedCfg,     \* configured schedule text of each entry, and what is enabled:
                  \* the providers with enabled: true, "local" for local.enabled
    notifyKinds,  \* MultiNotifier: the kinds of notification that are enabled
    providers,    \* Config.RemoteProviders while the configuration is loaded
    cron,         \* the cron instance: "new", "running", "stopping", "stopped" or "exited"
    registered,   \* entries cron.AddFunc has accepted
    startRet,     \* what Scheduler.Start returned: "none", "nil" or "err"
    stopSawJobs,  \* Scheduler.Stop was called while a fire was executing
    notif,        \* notification goroutines of each entry that have not finished
    notifCtx,     \* the fire's context as the notifier last invoked found it:
                  \* "none", "live" or "cancelled"
    env,          \* environment variables of the process that are set
    rop,          \* remote operations of the process: position of each
    ropProv,      \* remote operations of the process: the provider each works on
    remoteOpt,    \* remote.Options of the provider: Path, MaxVersions, EncryptionKey
    currentVersion, \* Provider.currentVersion of the handle each remote entry built last
    remote,       \* the remote backend: the entries it reports, each with name and time
    catDir,       \* the backup directory as os.ReadDir and Info report it, by file name
    listing,      \* what the last Catalog.List returned
    listCall,     \* the last Catalog.List: the source it was asked for and whether it failed
    picked,       \* restore command: how each process selected its backup, and the shortID
    mb            \* manual backup command: its flags, its position and what it produced

vars == <<holder, rpc, waited, fpc, fired, outcome, runningJobs, child, written, ctxDone,
          result, path, disk, now, retention, cfgState, selected, removed, applied, passes,
          failed, retErr, dbName, schedCfg, notifyKinds, providers, cron, registered, startRet,
          stopSawJobs, notif, notifCtx, env, rop, ropProv, remoteOpt, currentVersion, remote,
          catDir, listing, listCall, picked, mb>>

lockVars == <<holder, rpc, waited>>
fireVars == <<fpc, fired, outcome, runningJobs, child, written, ctxDone, result, path>>
retVars  == <<selected, removed, applied, passes, failed>>
cfgVars  == <<retention, cfgState, dbName, schedCfg, notifyKinds, providers, remoteOpt>>
daemonVars == <<cron, registered, startRet, stopSawJobs, notif, notifCtx>>
envVars  == <<env, rop, ropProv>>
catVars  == <<catDir, listing, listCall>>
cmdVars  == <<picked, mb>>
remVars  == <<currentVersion, remote>>

(***************************************************************************)
(* Bounds                                                                  *)
(***************************************************************************)
MaxFires == 2
MaxBytes == 1
MaxTime == 2
MaxTicks == 1
MaxLimit == 2
MaxDays == 1
MaxPasses == 2
MaxEntries == 2
MaxRotation == 2

(***************************************************************************)
(* Program constants                                                       *)
(***************************************************************************)
GzipHeaderLen  == 10
GzipTrailerLen == 8
DayLen         == 1
\* Largest hour and minute the cron expression parser accepts.
LastHour        == 23
LastMinute      == 59

\* Schedule entries: two times of day for the local backup, one for the
\* remote provider s3.
LocalEntries  == {"local", "local2"}
RemoteEntries == {"s3"}
Entries       == LocalEntries \cup RemoteEntries
\* The order in which Start goes through the configured schedules.
ScheduleOrder == <<"local", "local2", "s3">>
\* Remote providers of the configuration; gd has a configuration key that
\* is not a legal environment variable name.
Providers     == {"s3", "gd"}
\* Remote operations a process performs after constructing a handle.
RemoteOps     == {"backup", "list", "download"}
Restores      == {"restore1", "restore2"}
\* The restore command the operator runs next to the daemon.
Operator      == {"restore1"}


(***************************************************************************)
(* Filesystem                                                              *)
(***************************************************************************)
\* Local artifacts are named <db>-<timestamp>.sql.gz in the output directory;
\* the remote flow stages <db>-v<version>.sql.gz in the temp directory.
LocalPaths == {<<"out", t>> : t \in 0..MaxTime}
Paths      == LocalPaths \cup {<<"tmp", 1>>}
\* The files of one directory.
DirPaths(dir) == {p \in Paths : p[1] = dir}

NoFile           == [exists |-> FALSE, size |-> 0, mtime |-> 0]
File(size, mtime) == [exists |-> TRUE, size |-> size, mtime |-> mtime]

\* os.Remove
Remove(d, p) == [d EXCEPT ![p] = NoFile]

(***************************************************************************)
(* Restore lock (lock.FileLock over one flock handle per process)          *)
(***************************************************************************)
\* flock.TryLock by process p: succeeds when the OS lock is free or the
\* process's own handle already has it, fails without blocking otherwise.
TryLock(h, p) ==
    IF h = "none" \/ h = p
    THEN [locked |-> TRUE, holder |-> p]
    ELSE [locked |-> FALSE, holder |-> h]

\* flock.Unlock by process p: releases the lock if p's handle has it, else no-op.
Unlock(h, p) == IF h = p THEN "none" ELSE h

\* A restore command starts and reaches LockForRestore.
RestoreStart(r) ==
    /\ rpc[r] = "idle"
    /\ rpc' = [rpc EXCEPT ![r] = "acquiring"]
    /\ UNCHANGED waited
    /\ UNCHANGED <<holder, fireVars, disk, now, cfgVars, retVars, retErr, daemonVars, envVars,
                   catVars, cmdVars, remVars>>

\* One iteration of LockForRestore's loop: TryLock, return on success, else sleep.
LockForRestoreTryWrong(r) ==
    /\ rpc[r] = "acquiring"
    /\ holder' = r
    /\ rpc' = [rpc EXCEPT ![r] = "holding"]
    /\ UNCHANGED <<waited, fireVars, disk, now, cfgVars, retVars, retErr, daemonVars, envVars,
                   catVars, cmdVars, remVars>>

LockForRestoreTry(r) ==
    /\ rpc[r] = "acquiring"
    /\ LET t == TryLock(holder, r) IN
         /\ holder' = t.holder
         /\ rpc' = [rpc EXCEPT ![r] = IF t.locked THEN "holding" ELSE "sleeping"]
         /\ waited' = [waited EXCEPT ![r] = @ \/ ~t.locked]
    /\ UNCHANGED <<fireVars, disk, now, cfgVars, retVars, retErr, daemonVars, envVars,
                   catVars, cmdVars, remVars>>

\* time.Sleep(1s) elapses and the loop tries again.
LockForRestoreWake(r) ==
    /\ rpc[r] = "sleeping"
    /\ rpc' = [rpc EXCEPT ![r] = "acquiring"]
    /\ UNCHANGED <<holder, waited, fireVars, disk, now, cfgVars, retVars, retErr, daemonVars, envVars,
                   catVars, cmdVars, remVars>>

\* runRestore returns (restore done, or cancelled by the user): the deferred
\* UnlockForRestore runs.
RestoreReturn(r) ==
    /\ rpc[r] = "holding"
    /\ holder' = Unlock(holder, r)
    /\ rpc' = [rpc EXCEPT ![r] = "idle"]
    /\ waited' = [waited EXCEPT ![r] = FALSE]
    /\ UNCHANGED <<fireVars, disk, now, cfgVars, retVars, retErr, daemonVars, envVars,
                   catVars, cmdVars, remVars>>

\* runRestore ends in log.Fatalf: the process exits without running the
\* deferred unlock and the OS drops the lock with the process's descriptors.
RestoreFatal(r) ==
    /\ rpc[r] = "holding"
    /\ holder' = IF holder = r THEN "none" ELSE holder
    /\ rpc' = [rpc EXCEPT ![r] = "idle"]
    /\ waited' = [waited EXCEPT ![r] = FALSE]
    /\ UNCHANGED <<fireVars, disk, now, cfgVars, retVars, retErr, daemonVars, envVars,
                   catVars, cmdVars, remVars>>


(***************************************************************************)
(* Configuration (config.RetentionConfig, Config.validateLocalBackup)      *)
(***************************************************************************)
\* MaxBackups and RetentionDays are *int: set or nil.
Retention(maxSet, max, daysSet, days) ==
    [maxSet |-> maxSet, max |-> max, daysSet |-> daysSet, days |-> days]

NoRetention == Retention(FALSE, 0, FALSE, 0)

HasMaxBackups(r)    == r.maxSet
HasRetentionDays(r) == r.daysSet
HasRetentionAlways(r) == TRUE

HasRetention(r)     == HasMaxBackups(r) \/ HasRetentionDays(r)

\* The retention part of validateLocalBackup: TRUE when the configuration is accepted.
validateLocalBackupNoBothCheck(r) ==
    /\ HasRetentionDays(r) => r.days >= 1
    /\ HasMaxBackups(r) => r.max >= 1

validateLocalBackup(r) ==
    /\ ~(HasRetentionDays(r) /\ HasMaxBackups(r))
    /\ HasRetentionDays(r) => r.days >= 1
    /\ HasMaxBackups(r) => r.max >= 1

(***************************************************************************)
(* Retention engine (retention.Local)                                      *)
(***************************************************************************)
BackupFile(d, p) == [path |-> p, mtime |-> d[p].mtime, size |-> d[p].size]

\* findBackups: the files of the output directory matching the glob, with the
\* metadata os.Stat reports.
Candidates(d, dir) == {BackupFile(d, p) : p \in {q \in DirPaths(dir) : d[q].exists}}


\* filepath.Glob on <dir>/<db>-*.sql.gz*: the only error is a malformed
\* pattern, which an unclosed character class in the database name makes.
GlobOk(db) == \A i \in 1..Len(db) : db[i] # "["

Perms(S) ==
    {s \in [1..Cardinality(S) -> S] : \A i, j \in 1..Cardinality(S) : i # j => s[i] # s[j]}

\* findBackups ends in sort.Sort by ModTime: any ascending order of the
\* candidates (the order among equal modification times is unspecified).
findBackups(d, dir) ==
    {s \in Perms(Candidates(d, dir)) :
        \A i, j \in 1..Len(s) : i < j => s[i].mtime <= s[j].mtime}

cleanByCountOffByOne(backups, maxBackups) ==
    IF Len(backups) <= maxBackups
    THEN <<>>
    ELSE SubSeq(backups, 1, Len(backups) - maxBackups + 1)

\* cleanByCount up to its deletion loop: the candidates selected for removal.
cleanByCount(backups, maxBackups) ==
    IF Len(backups) < maxBackups
    THEN <<>>
    ELSE SubSeq(backups, 1, Len(backups) - maxBackups)

cleanByDaysInclusive(backups, retentionDays, t) ==
    LET cutoff == t - retentionDays * DayLen
        Old(b) == b.mtime <= cutoff
    IN  SelectSeq(backups, Old)

\* cleanByDays up to its deletion loop: the candidates before the cutoff.
cleanByDays(backups, retentionDays, t) ==
    LET cutoff == t - retentionDays * DayLen
        Old(b) == b.mtime < cutoff
    IN  SelectSeq(backups, Old)

\* The deletion loop of cleanByCount / cleanByDays: os.Remove each selected
\* candidate in order; a failing removal (a path in bad) is skipped.
RemoveEachAbort(d, sel, bad) ==
    LET stop == {j \in 1..Len(sel) : sel[j].path \in bad}
        n    == IF stop = {} THEN Len(sel)
                ELSE (CHOOSE j \in stop : \A k \in stop : j <= k) - 1
        gone == {sel[i].path : i \in 1..n}
    IN  [disk    |-> [p \in Paths |-> IF p \in gone THEN NoFile ELSE d[p]],
         removed |-> SubSeq(sel, 1, n),
         failed  |-> {sel[i].path : i \in stop}]

RemoveEach(d, sel, bad) ==
    LET Ok(b) == b.path \notin bad
        gone  == {sel[i].path : i \in {j \in 1..Len(sel) : sel[j].path \notin bad}}
    IN  [disk    |-> [p \in Paths |-> IF p \in gone THEN NoFile ELSE d[p]],
         removed |-> SelectSeq(sel, Ok),
         failed  |-> {sel[i].path : i \in {j \in 1..Len(sel) : sel[j].path \in bad}}]

\* What retention.Local.Run returns when it deletes nothing: err is the
\* error it returns, listed whether it got through findBackups.
NoCleanup(d, err, listed) ==
    [disk |-> d, selected |-> <<>>, removed |-> <<>>, applied |-> {}, failed |-> {},
     err |-> err, listed |-> listed]

\* retention.Local.Run on directory d at time t for database db, where
\* backups is the sorted listing findBackups returns when the glob works
\* and bad the paths os.Remove fails on.
RetentionRun(d, r, db, backups, t, bad) ==
    IF ~HasRetention(r) THEN NoCleanup(d, FALSE, FALSE)
    ELSE IF ~GlobOk(db) THEN NoCleanup(d, TRUE, FALSE)
    ELSE IF Len(backups) = 0 THEN NoCleanup(d, FALSE, TRUE)
    ELSE LET sel == IF HasMaxBackups(r) THEN cleanByCount(backups, r.max)
                    ELSE cleanByDays(backups, r.days, t)
             pol == IF HasMaxBackups(r) THEN {"count"} ELSE {"days"}
             del == RemoveEach(d, sel, bad)
         IN  [disk |-> del.disk, selected |-> sel, removed |-> del.removed, applied |-> pol,
              failed |-> del.failed, err |-> FALSE, listed |-> TRUE]


(***************************************************************************)
(* Remote provider environment (remote.Options.SetupEnv / CleanupEnv)      *)
(***************************************************************************)
\* Keys of the provider's Config map, as character sequences.
ProviderKeys(p) == IF p = "s3" THEN {<<"a">>} ELSE {<<"a">>, <<"=">>}

\* strings.ToUpper
ToUpper(k) == [i \in 1..Len(k) |-> IF k[i] = "a" THEN "A" ELSE k[i]]

\* Names of the variables: RCLONE_CONFIG_<NAME>_TYPE and
\* RCLONE_CONFIG_<NAME>_<KEY>, written as <<provider, suffix>>.
TypeName(p)   == <<p, <<"T", "Y", "P", "E">>>>
EnvName(p, k) == <<p, ToUpper(k)>>

\* os.Setenv rejects a name that contains '='.
SetenvOk(name) == \A i \in 1..Len(name[2]) : name[2][i] # "="

\* Options.CleanupEnv: unset TYPE and the variable of every Config key.
CleanupEnv(e, p) == e \ ({TypeName(p)} \cup {EnvName(p, k) : k \in ProviderKeys(p)})

\* The orders in which ranging over the Config map can visit its keys.
KeyOrders(p) == Perms(ProviderKeys(p))

\* Options.SetupEnv visiting the keys in the given order: set TYPE, then
\* each key; at the first Setenv error clean up and return the error.
SetupEnv(e, p, order) ==
    LET bad == {i \in 1..Len(order) : ~SetenvOk(EnvName(p, order[i]))}
        n   == IF bad = {} THEN Len(order)
               ELSE (CHOOSE i \in bad : \A j \in bad : i <= j) - 1
        set == e \cup {TypeName(p)} \cup {EnvName(p, order[i]) : i \in 1..n}
    IN  IF bad = {}
        THEN [ok |-> TRUE, env |-> set]
        ELSE [ok |-> FALSE, env |-> CleanupEnv(set, p)]

(***************************************************************************)
(* Schedule texts (Scheduler.convertCronExp, cron.AddFunc)                 *)
(***************************************************************************)
\* A schedule text is a sequence of tokens: a decimal number, a colon or
\* any other character.
D(n)  == [k |-> "d", n |-> n]
Colon == [k |-> ":", n |-> 0]


\* fmt.Sscanf(schedule, "%d:%d", &hour, &minute)
Sscanf(text) ==
    IF Len(text) >= 3 /\ text[1].k = "d" /\ text[2].k = ":" /\ text[3].k = "d"
    THEN [ok |-> TRUE, hour |-> text[1].n, minute |-> text[3].n]
    ELSE [ok |-> FALSE, hour |-> 0, minute |-> 0]

\* convertCronExp: the cron expression "<minute> <hour> * * *", kept as
\* the pair of its first two fields.
convertCronExp(text) ==
    LET t == Sscanf(text) IN
      IF t.ok THEN [ok |-> TRUE, expr |-> <<t.minute, t.hour>>]
      ELSE [ok |-> FALSE, expr |-> <<0, 0>>]

\* cron.AddFunc parses the expression and rejects a field out of range.
AddFuncOk(expr) == expr[1] \in 0..LastMinute /\ expr[2] \in 0..LastHour

\* One entry goes through conversion and registration.
RegisterOk(text) ==
    LET c == convertCronExp(text) IN c.ok /\ AddFuncOk(c.expr)

\* scheduleLocalBackups registers every local schedule and does not read
\* local.enabled; scheduleRemoteBackups skips a provider that is not enabled.
Attempted(cfg, f) == f \in LocalEntries \/ f \in cfg.enabled

\* Position in ScheduleOrder of the first entry whose conversion or
\* registration fails, 0 when none does.
FirstFailure(cfg) ==
    LET bad == {i \in 1..Len(ScheduleOrder) :
                  /\ Attempted(cfg, ScheduleOrder[i])
                  /\ ~RegisterOk(cfg.text[ScheduleOrder[i]])}
    IN  IF bad = {} THEN 0 ELSE CHOOSE i \in bad : \A j \in bad : i <= j

\* The entries cron.AddFunc has accepted when Start returns.
RegisteredBy(cfg) ==
    LET k == FirstFailure(cfg) IN
      {ScheduleOrder[i] : i \in {j \in 1..Len(ScheduleOrder) :
                                   Attempted(cfg, ScheduleOrder[j]) /\ (k = 0 \/ j < k)}}

\* Start calls cron.Start only when every entry was registered.
StartCronAnyway(k) == "running"

StartCron(k) == IF k = 0 THEN "running" ELSE "new"

(***************************************************************************)
(* File names and short identifiers (package utils)                        *)
(***************************************************************************)
\* A string is a sequence of pieces, each one character or a run of
\* characters that no operation of the program splits.
HasSuffix(s, suf) ==
    Len(s) >= Len(suf) /\ SubSeq(s, Len(s) - Len(suf) + 1, Len(s)) = suf

HasPrefix(s, pre) == Len(s) >= Len(pre) /\ SubSeq(s, 1, Len(pre)) = pre

\* The extension the producers give an artifact, and the encryption suffix.
SqlGz == <<".sql", ".gz">>
Age   == <<".age">>

\* utils.IsFileBackup
IsFileBackup(name) == HasSuffix(name, Age) \/ HasSuffix(name, <<".gz">>)

\* fmt's %d of a number that is not negative.
RECURSIVE Itoa(_)
Itoa(n) ==
    LET Digits == <<"0", "1", "2", "3", "4", "5", "6", "7", "8", "9">> IN
    IF n < 10 THEN <<Digits[n + 1]>> ELSE Itoa(n \div 10) \o <<Digits[(n % 10) + 1]>>

\* hex.EncodeToString(h[:4]) of sha256.Sum256 of the message: the digests
\* of the messages the listings of this model hash.
Sha256Prefix(msg) ==
    CASE msg = <<"d", "b", "-", "0", ".sql", ".gz", "-", "0">> -> "20b2320f"
      [] msg = <<"d", "b", "-", "0", ".sql", ".gz", "-", "1">> -> "7444602d"
      [] msg = <<"d", "b", "-", "0", ".sql", ".gz", "-", "2">> -> "85551f16"
      [] msg = <<"d", "b", "-", "0", ".sql", ".gz", "-", "3">> -> "438eb2e6"
      [] msg = <<"d", "b", "-", "0", ".sql", ".gz", "-", "4">> -> "36f9daae"
      [] msg = <<"d", "b", "-", "0", ".sql", ".gz", "-", "5">> -> "35807b2b"
      [] msg = <<"d", "b", "-", "0", ".sql", ".gz", "-", "6">> -> "e2ff86df"
      [] msg = <<"d", "b", "-", "0", ".sql", ".gz", "-", "7">> -> "3d1b71a0"
      [] msg = <<"d", "b", "-", "1", ".sql", ".gz", ".age", "-", "0">> -> "28156619"
      [] msg = <<"d", "b", "-", "1", ".sql", ".gz", ".age", "-", "1">> -> "84d5f99e"
      [] msg = <<"d", "b", "-", "1", ".sql", ".gz", ".age", "-", "2">> -> "5b4f8a08"
      [] msg = <<"d", "b", "-", "1", ".sql", ".gz", ".age", "-", "3">> -> "83a7ac2c"
      [] msg = <<"d", "b", "-", "1", ".sql", ".gz", ".age", "-", "4">> -> "fb1c88bf"
      [] msg = <<"d", "b", "-", "1", ".sql", ".gz", ".age", "-", "5">> -> "a277faa7"
      [] msg = <<"d", "b", "-", "1", ".sql", ".gz", ".age", "-", "6">> -> "370f763c"
      [] msg = <<"d", "b", "-", "1", ".sql", ".gz", ".age", "-", "7">> -> "9ef307aa"
      [] msg = <<"key", ".age", "-", "0">> -> "bfb653e9"
      [] msg = <<"key", ".age", "-", "1">> -> "dc274086"
      [] msg = <<"key", ".age", "-", "2">> -> "07c49a98"
      [] msg = <<"key", ".age", "-", "3">> -> "abec1b36"
      [] msg = <<"key", ".age", "-", "4">> -> "24c8d5e2"
      [] msg = <<"key", ".age", "-", "5">> -> "1cd7a361"
      [] msg = <<"key", ".age", "-", "6">> -> "54524061"
      [] msg = <<"key", ".age", "-", "7">> -> "cb30c0dd"
      [] msg = <<"old", ".sql", ".gz", "-", "0">> -> "25252ee2"
      [] msg = <<"old", ".sql", ".gz", "-", "1">> -> "a732d546"
      [] msg = <<"old", ".sql", ".gz", "-", "2">> -> "cd02703d"
      [] msg = <<"old", ".sql", ".gz", "-", "3">> -> "26a31d8d"
      [] msg = <<"old", ".sql", ".gz", "-", "4">> -> "a7f7d0ac"
      [] msg = <<"old", ".sql", ".gz", "-", "5">> -> "40d38704"
      [] msg = <<"old", ".sql", ".gz", "-", "6">> -> "682a8aaf"
      [] msg = <<"old", ".sql", ".gz", "-", "7">> -> "06a7908d"
      [] msg = <<"d", "b", "-v", "1", ".sql", ".gz", "-", "0">> -> "80c417ce"
      [] msg = <<"d", "b", "-v", "1", ".sql", ".gz", "-", "1">> -> "10776835"
      [] msg = <<"d", "b", "-v", "1", ".sql", ".gz", "-", "2">> -> "54abd12e"
      [] msg = <<"d", "b", "-v", "1", ".sql", ".gz", "-", "3">> -> "1b1d94e6"
      [] msg = <<"d", "b", "-v", "1", ".sql", ".gz", "-", "4">> -> "1268b2c9"
      [] msg = <<"d", "b", "-v", "1", ".sql", ".gz", "-", "5">> -> "2e8ea1b7"
      [] msg = <<"d", "b", "-v", "1", ".sql", ".gz", "-", "6">> -> "7ec54c65"
      [] msg = <<"d", "b", "-v", "1", ".sql", ".gz", "-", "7">> -> "86c12a44"

\* Modification times are in seconds since the epoch, as time.Unix reports.
GenerateShortIDOfName(name, modTime) == Sha256Prefix(name \o <<"-", "0">>)

\* utils.GenerateShortID
GenerateShortID(name, modTime) == Sha256Prefix(name \o <<"-">> \o Itoa(modTime))

(***************************************************************************)
(* Remote naming (remote.Options)                                          *)
(***************************************************************************)
\* Options.HasVersioning
HasVersioningFromZero(o) == o.maxVersions >= 0

HasVersioning(o) == o.maxVersions > 0

\* Options.GetRemoteFileName for database db
GetRemoteFileName(o, db, version) ==
    LET ext == IF o.key # <<>> THEN SqlGz \o Age ELSE SqlGz IN
      IF HasVersioning(o)
      THEN db \o <<"-v">> \o Itoa(version) \o ext
      ELSE db \o ext

\* Options.RemotePathFor
RemotePathFor(o, fileName) ==
    IF o.path = <<>> THEN fileName ELSE o.path \o <<"/">> \o fileName

\* NewProviderWithOptions: the version counter of a new handle, given that
\* of the handle the entry built before.
NewProviderVersionNext(prev) == prev + 1

NewProviderVersion(prev) == 1

\* Options.IsEncryptEnabled of the producer.
IsEncryptEnabled(key) == key # <<>>

\* Options.EncryptionKey of the producer of a fire: backup.WithConfig copies
\* the configured key, Provider.Run builds its producer without one.
ProducerKey(f, key) == IF f \in {"local", "local2"} THEN key ELSE <<>>

\* The file name backup.Local.Run gives the artifact of fire f started at
\* time t: GenerateFileName (the timestamped name locally, the remote file
\* name in the remote flow), plus ".age" when the producer encrypts.
FileName(f, o, db, t, version) ==
    (IF f \in {"local", "local2"} THEN db \o <<"-">> \o Itoa(t) \o SqlGz
     ELSE GetRemoteFileName(o, db, version))
      \o (IF IsEncryptEnabled(ProducerKey(f, o.key)) THEN Age ELSE <<>>)

\* An entry of the remote backend.
RemoteEntry(name, mtime) == [name |-> name, mtime |-> mtime]

\* operations.Rcat: the object at the path is written with the given time,
\* replacing what the backend had under that name.
Rcat(objects, name, mtime) ==
    {e \in objects : e.name # name} \cup {RemoteEntry(name, mtime)}

(***************************************************************************)
(* Catalog (catalog.Catalog, remote.Provider.List)                         *)
(***************************************************************************)
\* The names a backup directory can hold, in byte order, which is the
\* order os.ReadDir lists them in: db-0.sql.gz, db-1.sql.gz.age, key.age,
\* notes.txt, old.sql.gz.
DirNames ==
    << <<"d", "b", "-", "0", ".sql", ".gz">>,
       <<"d", "b", "-", "1", ".sql", ".gz", ".age">>,
       <<"key", ".age">>,
       <<"notes", ".txt">>,
       <<"old", ".sql", ".gz">> >>

DirNameSet == {DirNames[i] : i \in 1..Len(DirNames)}

\* What os.ReadDir and DirEntry.Info report of a name: nothing, a file or
\* a subdirectory, and the modification time.
NoEntry          == [kind |-> "none", mtime |-> 0]
DirEntry(k, t)   == [kind |-> k, mtime |-> t]

\* os.ReadDir: the names present, sorted by file name.
ReadDir(dir) ==
    LET Has(n) == dir[n].kind # "none" IN SelectSeq(DirNames, Has)

\* catalog.BackupFile as listLocal and listRemote fill it in.
CatalogFile(name, modTime) ==
    [shortID   |-> GenerateShortID(name, modTime),
     name      |-> name,
     modTime   |-> modTime,
     encrypted |-> HasSuffix(name, Age)]

\* Catalog.listLocal over a directory that could be read.
listLocal(dir) ==
    LET Keep(n) == dir[n].kind # "dir" /\ IsFileBackup(n)
        names   == SelectSeq(ReadDir(dir), Keep)
    IN  [i \in 1..Len(names) |-> CatalogFile(names[i], dir[names[i]].mtime)]

\* time.Time.After
After(a, b) == a > b

\* The loop of Provider.List over the backend's entries: fileMap keeps one
\* entry per name, replaced by a later entry only when that one is newer.
RECURSIVE FileMap(_)
FileMap(entries) ==
    IF entries = <<>> THEN {}
    ELSE LET m == FileMap(SubSeq(entries, 1, Len(entries) - 1))
             e == entries[Len(entries)]
             same == {x \in m : x.name = e.name}
         IN  IF ~IsFileBackup(e.name) THEN m
             ELSE IF same = {} THEN m \cup {e}
             ELSE IF \E x \in same : After(e.mtime, x.mtime) THEN (m \ same) \cup {e}
             ELSE m

\* fsys.List(ctx, opt.Path): the backend's entries in the directory Path.
UnderPath(objects, o) ==
    IF o.path = <<>>
    THEN {e \in objects : \A i \in 1..Len(e.name) : e.name[i] # "/"}
    ELSE {e \in objects : HasPrefix(e.name, o.path \o <<"/">>)}

\* Catalog.findProvider: the provider is configured and enabled.
findProviderByName(cfg, name) == name \in Providers

findProvider(cfg, name) == name \in Providers /\ name \in cfg.enabled

(***************************************************************************)
(* Backup producer (backup.Local) and its pg_dump child process            *)
(***************************************************************************)
NoPath == <<"none", 0>>

\* backup.WithOutputDir: the local producer writes to the configured
\* directory, the producer of the remote flow to the temp directory.
OutputDir(f) == IF f \in LocalEntries THEN "out" ELSE "tmp"

\* backup.WithoutRetention
WithoutRetention(r) == NoRetention

\* Options.Retention of the producer: the scheduler's producer is built
\* with WithConfig, the remote flow's with WithoutRetention on empty options.
ProducerRetentionFromConfig(f, r) == r

ProducerRetention(f, r) == IF f \in LocalEntries THEN r ELSE WithoutRetention(NoRetention)

\* GenerateFileName joined with OutputDir: the scheduled local backup names
\* the artifact after the current time, the remote flow after the version.
OutputPath(f, t) == IF f \in LocalEntries THEN <<"out", t>> ELSE <<"tmp", 1>>

\* Bytes gzip.Writer has put into the file after n bytes of dump output
\* (the header goes out with the first write).
StreamedSize(n) == IF n = 0 THEN 0 ELSE GzipHeaderLen + n

\* Size of the file once the deferred gz.Close has run: Close writes the
\* header if nothing was written yet, then the trailer.
ClosedSize(n) == GzipHeaderLen + n + GzipTrailerLen

\* exec.CommandContext: when the context is done the child is killed.
OnDeadlineAbandon(c) == c

OnDeadline(c) == IF c = "running" THEN "killed" ELSE c

\* executePgDump after cmd.Wait: a failed process has its output file removed.
AfterWaitKeep(d, p, status) == d

AfterWait(d, p, status) == IF status # "exit0" THEN Remove(d, p) ELSE d

\* backup.Local.Run up to cmd.Start: MkdirAll, file name, os.Create, stderr
\* pipe, Start.  On success pg_dump is running with the file as its sink.
\* In the remote flow the provider handle has been constructed before
\* (SetupEnv and fs.NewFs succeeded), which leaves its variables set.
ProducerStart(f) ==
    /\ fpc[f] = "entered"
    /\ IF f \in RemoteEntries
       THEN /\ \E order \in KeyOrders(f) :
                 /\ SetupEnv(env, f, order).ok
                 /\ env' = SetupEnv(env, f, order).env
            /\ currentVersion' = [currentVersion EXCEPT ![f] = NewProviderVersion(@)]
       ELSE /\ env' = env
            /\ currentVersion' = currentVersion
    /\ LET p == OutputPath(f, now) IN
       \E step \in {"mkdir", "create", "start", "ok"} :
         /\ path' = [path EXCEPT ![f] = IF step = "mkdir" THEN NoPath ELSE p]
         /\ disk' = IF step \in {"start", "ok"}
                    THEN [disk EXCEPT ![p] = File(0, now)]
                    ELSE disk
         /\ IF step = "ok"
            THEN /\ child' = [child EXCEPT ![f] = "running"]
                 /\ fpc' = [fpc EXCEPT ![f] = "dumping"]
                 /\ UNCHANGED result
            ELSE /\ result' = [result EXCEPT ![f] = "err"]
                 /\ fpc' = [fpc EXCEPT ![f] = "produced"]
                 /\ UNCHANGED child
    /\ UNCHANGED <<lockVars, fired, outcome, runningJobs, written, ctxDone,
                   now, cfgVars, retVars, retErr, daemonVars, rop, ropProv,
                   catVars, cmdVars, remote>>

\* pg_dump writes one more byte to stdout, which gzip streams into the file.
ChildWrite(f) ==
    /\ fpc[f] = "dumping"
    /\ child[f] = "running"
    /\ written[f] < MaxBytes
    /\ written' = [written EXCEPT ![f] = @ + 1]
    /\ disk' = [disk EXCEPT ![path[f]] = File(StreamedSize(written[f] + 1), now)]
    /\ UNCHANGED <<lockVars, fpc, fired, outcome, runningJobs, child, ctxDone,
                   result, path, now, cfgVars, retVars, retErr, daemonVars, envVars,
                   catVars, cmdVars, remVars>>

\* pg_dump exits on its own, successfully or not.
ChildExit(f) ==
    /\ fpc[f] = "dumping"
    /\ child[f] = "running"
    /\ \E status \in {"exit0", "exit1"} : child' = [child EXCEPT ![f] = status]
    /\ UNCHANGED <<lockVars, fpc, fired, outcome, runningJobs, written, ctxDone,
                   result, path, disk, now, cfgVars, retVars, retErr, daemonVars, envVars,
                   catVars, cmdVars, remVars>>

\* The fire's context deadline expires while pg_dump is running.
DeadlineExpire(f) ==
    /\ fpc[f] = "dumping"
    /\ child[f] = "running"
    /\ ctxDone' = [ctxDone EXCEPT ![f] = TRUE]
    /\ child' = [child EXCEPT ![f] = OnDeadline(child[f])]
    /\ UNCHANGED <<lockVars, fpc, fired, outcome, runningJobs, written,
                   result, path, disk, now, cfgVars, retVars, retErr, daemonVars, envVars,
                   catVars, cmdVars, remVars>>

\* What backup.Local.Run returns after a dump that succeeded, given the
\* error of the retention pass: the error is logged, the path returned.
RunResultStrict(retentionErr) == IF retentionErr THEN "err" ELSE "path"

RunResult(retentionErr) == "path"

\* Whether backup.Local.Run reaches the retention engine: pg_dump exited
\* successfully, os.Stat found the artifact, the artifact is not empty and
\* the producer's options have a retention policy.
RetentionDueUnverified(status, statOk, size, r) == HasRetention(r)

RetentionDue(status, statOk, size, r) ==
    status = "exit0" /\ statOk /\ size # 0 /\ HasRetention(r)

\* cmd.Wait returns and backup.Local.Run runs to its return: failure removes
\* the file; success closes the writers, stats the file (the stat fails
\* when the file is gone), rejects an empty one and runs the retention
\* pass when a policy is configured.  closeOk tells whether the deferred
\* closes of executePgDump succeed; their errors are discarded, and a close
\* that fails leaves in the file what had been streamed.
WaitReturn(f, closeOk) ==
    /\ fpc[f] = "dumping"
    /\ child[f] # "running"
    /\ closeOk \/ child[f] = "exit0"
    /\ fpc' = [fpc EXCEPT ![f] = "produced"]
    /\ \E statOk \in {ok \in BOOLEAN : child[f] # "exit0" => ok} :
       LET status   == child[f]
           size     == IF closeOk THEN ClosedSize(written[f]) ELSE StreamedSize(written[f])
           closed   == IF status # "exit0" THEN AfterWait(disk, path[f], status)
                       ELSE IF ~statOk \/ size = 0 THEN Remove(disk, path[f])
                       ELSE [disk EXCEPT ![path[f]] = File(size, now)]
           verified == status = "exit0" /\ statOk /\ size # 0
           r        == ProducerRetention(f, retention)
       IN  IF RetentionDue(status, statOk, size, r)
           THEN \E backups \in findBackups(closed, OutputDir(f)) :
                \E bad \in SUBSET {q \in DirPaths(OutputDir(f)) : closed[q].exists} :
                  LET run == RetentionRun(closed, r, dbName, backups, now, bad) IN
                    /\ result' = [result EXCEPT ![f] = IF verified THEN RunResult(run.err) ELSE "err"]
                    /\ disk' = run.disk
                    /\ selected' = run.selected
                    /\ removed' = run.removed
                    /\ applied' = run.applied
                    /\ failed' = run.failed
                    /\ retErr' = run.err
                    /\ passes' = IF run.listed THEN passes + 1 ELSE passes
           ELSE /\ result' = [result EXCEPT ![f] = IF verified THEN RunResult(FALSE) ELSE "err"]
                /\ disk' = closed
                /\ retErr' = FALSE
                /\ UNCHANGED retVars
    /\ UNCHANGED <<lockVars, fired, outcome, runningJobs, child, written, ctxDone,
                   path, now, cfgVars, daemonVars, envVars,
                   catVars, cmdVars, remVars>>


(***************************************************************************)
(* Scheduler (runLocalBackup, runRemoteBackup)                             *)
(***************************************************************************)
\* Number of cron fires so far, over all entries.
RECURSIVE SumFired(_)
SumFired(S) ==
    IF S = {} THEN 0
    ELSE LET f == CHOOSE x \in S : TRUE IN fired[f] + SumFired(S \ {f})

\* What a fire does with the answer of the lock probe's TryLock.
AfterProbeIgnoreLock(locked) == "probed"

AfterProbe(locked) == IF locked THEN "probed" ELSE "armed"

\* What IsRestoreRunning does with the lock its TryLock obtained.
ProbeUnlockForget(h) == h

ProbeUnlock(h) == Unlock(h, "daemon")

\* runLocalBackup counts itself in runningJobs, runRemoteBackup does not.
CountsAsRunningAll(f) == TRUE

CountsAsRunning(f) == f \in LocalEntries

\* A handler whose backup failed logs the error, starts the notification
\* and returns: the process and its cron instance go on as they were.
OnBackupErrorFatal(c) == "exited"

OnBackupError(c) == c

\* go notifier.Success / go notifier.Error: one more goroutine of entry f
\* is delivering; a MultiNotifier with the kind disabled returns at once.
Notify(n, f, kind) == IF kind \in notifyKinds THEN [n EXCEPT ![f] = @ + 1] ELSE n

\* The goroutine discards what the notifier returned.
NotifyDoneFailsJob(o, f, r) == IF r = "error" THEN [o EXCEPT ![f] = "failed"] ELSE o

NotifyDone(o, f, r) == o

\* Every job goroutine cron started has returned (cron's job waiter).
JobsDone == \A f \in Entries : fpc[f] = "armed"

\* Scheduler.Stop waits on the context cron.Stop returned, which is done
\* when the running jobs have completed.
StopMayReturnAtOnce == TRUE

StopMayReturn == JobsDone

\* Scheduler.Start: register the local schedules, then those of the enabled
\* providers, and start cron; the first failure returns the error at once.
SchedulerStart ==
    /\ cfgState = "valid"
    /\ cron = "new"
    /\ startRet = "none"
    /\ LET k == FirstFailure(schedCfg) IN
         /\ registered' = RegisteredBy(schedCfg)
         /\ cron' = StartCron(k)
         /\ startRet' = IF k = 0 THEN "nil" ELSE "err"
    /\ UNCHANGED <<lockVars, fireVars, disk, now, cfgVars, retVars, retErr,
                   stopSawJobs, notif, notifCtx, envVars,
                   catVars, cmdVars, remVars>>

\* Scheduler.Stop up to the wait: cron.Stop ends the run loop, so that no
\* further entry fires, and returns the context of the running jobs.
StopRequest ==
    /\ cron = "running"
    /\ cron' = "stopping"
    /\ stopSawJobs' = ~JobsDone
    /\ UNCHANGED <<lockVars, fireVars, disk, now, cfgVars, retVars, retErr,
                   registered, startRet, notif, notifCtx, envVars,
                   catVars, cmdVars, remVars>>

\* Scheduler.Stop returns.
StopReturn ==
    /\ cron = "stopping"
    /\ StopMayReturn
    /\ cron' = "stopped"
    /\ UNCHANGED <<lockVars, fireVars, disk, now, cfgVars, retVars, retErr,
                   registered, startRet, stopSawJobs, notif, notifCtx, envVars,
                   catVars, cmdVars, remVars>>

\* A notification goroutine of entry f runs: it calls the notifier with the
\* context of the fire that started it, which that fire cancels on return
\* (defer cancel()), before or after the goroutine gets to run; the
\* notifier delivers the message or returns an error.
NotifierFinish(f) ==
    /\ notif[f] > 0
    /\ notif' = [notif EXCEPT ![f] = @ - 1]
    /\ notifCtx' \in {"live", "cancelled"}
    /\ \E r \in {"sent", "error"} : outcome' = NotifyDone(outcome, f, r)
    /\ UNCHANGED <<lockVars, fpc, fired, runningJobs, child, written, ctxDone, result,
                   path, disk, now, cfgVars, retVars, retErr, cron, registered,
                   startRet, stopSawJobs, envVars,
                   catVars, cmdVars, remVars>>

\* cron fires entry f and the handler calls IsRestoreRunning, which tries
\* the lock; when the try fails the handler logs the skip and returns.
FireProbe(f) ==
    /\ cfgState = "valid"
    /\ cron = "running"
    /\ f \in registered
    /\ fpc[f] = "armed"
    /\ SumFired(Entries) < MaxFires
    /\ fired' = [fired EXCEPT ![f] = @ + 1]
    /\ LET t == TryLock(holder, "daemon") IN
         /\ holder' = t.holder
         /\ fpc' = [fpc EXCEPT ![f] = AfterProbe(t.locked)]
         /\ outcome' = [outcome EXCEPT ![f] = IF t.locked THEN "probing" ELSE "skipped"]
    /\ UNCHANGED <<rpc, waited, runningJobs, child, written, ctxDone, result, path,
                   disk, now, cfgVars, retVars, retErr, daemonVars, envVars,
                   catVars, cmdVars, remVars>>

\* IsRestoreRunning unlocks and returns false; a local fire then counts
\* itself as running, and both kinds create their deadline context.
ProbeRelease(f) ==
    /\ fpc[f] = "probed"
    /\ holder' = ProbeUnlock(holder)
    /\ fpc' = [fpc EXCEPT ![f] = "entered"]
    /\ runningJobs' = IF CountsAsRunning(f) THEN runningJobs + 1 ELSE runningJobs
    /\ UNCHANGED <<rpc, waited, fired, outcome, child, written, ctxDone, result, path,
                   disk, now, cfgVars, retVars, retErr, daemonVars, envVars,
                   catVars, cmdVars, remVars>>

\* runRemoteBackup: remote.NewProviderWithOptions fails, in SetupEnv
\* (which cleans up) or in fs.NewFs (which returns with the variables
\* set); the fire logs, notifies and returns.
ProviderCreateFail(f) ==
    /\ f \in RemoteEntries
    /\ fpc[f] = "entered"
    /\ \E order \in KeyOrders(f) : env' = SetupEnv(env, f, order).env
    /\ fpc' = [fpc EXCEPT ![f] = "armed"]
    /\ outcome' = [outcome EXCEPT ![f] = "failed"]
    /\ notif' = Notify(notif, f, "error")
    /\ cron' = OnBackupError(cron)
    /\ UNCHANGED <<lockVars, fired, runningJobs, child, written, ctxDone, result,
                   path, disk, now, cfgVars, retVars, retErr, registered, startRet,
                   stopSawJobs, notifCtx, rop, ropProv,
                   catVars, cmdVars, remVars>>

\* Provider.Run after a successful producer run: uploadFile writes the
\* staged file to the remote path of the file name computed from the
\* handle's version, with the file's modification time; then the deferred
\* os.Remove deletes the staged file from the temp directory.
RemoteUpload(f) ==
    /\ f \in RemoteEntries
    /\ fpc[f] = "produced"
    /\ result[f] = "path"
    /\ \E up \in {"uploaded", "uploadFailed"} :
         /\ fpc' = [fpc EXCEPT ![f] = up]
         /\ remote' = IF up = "uploaded"
                      THEN Rcat(remote,
                                RemotePathFor(remoteOpt,
                                    GetRemoteFileName(remoteOpt, dbName, currentVersion[f])),
                                disk[path[f]].mtime)
                      ELSE remote
    /\ disk' = Remove(disk, path[f])
    /\ UNCHANGED <<lockVars, fired, outcome, runningJobs, child, written, ctxDone,
                   result, path, now, cfgVars, retVars, retErr, daemonVars, envVars,
                   catVars, cmdVars, currentVersion>>

\* The handler logs the result, starts the notification and returns; the
\* deferred functions of a local fire decrement the running-job counter,
\* those of Provider.Run clean the provider's variables up.
FireReturn(f) ==
    /\ \/ fpc[f] = "produced" /\ (f \in LocalEntries \/ result[f] = "err")
       \/ fpc[f] \in {"uploaded", "uploadFailed"}
    /\ LET ok == result[f] = "path" /\ fpc[f] # "uploadFailed" IN
         /\ outcome' = [outcome EXCEPT ![f] = IF ok THEN "ok" ELSE "failed"]
         /\ notif' = Notify(notif, f, IF ok THEN "success" ELSE "error")
         /\ cron' = IF ok THEN cron ELSE OnBackupError(cron)
    /\ env' = IF f \in RemoteEntries THEN CleanupEnv(env, f) ELSE env
    /\ runningJobs' = IF CountsAsRunning(f) THEN runningJobs - 1 ELSE runningJobs
    /\ fpc' = [fpc EXCEPT ![f] = "armed"]
    /\ child' = [child EXCEPT ![f] = "none"]
    /\ written' = [written EXCEPT ![f] = 0]
    /\ ctxDone' = [ctxDone EXCEPT ![f] = FALSE]
    /\ result' = [result EXCEPT ![f] = "none"]
    /\ path' = [path EXCEPT ![f] = NoPath]
    /\ UNCHANGED <<lockVars, fired, disk, now, cfgVars, retVars, retErr, registered,
                   startRet, stopSawJobs, notifCtx, rop, ropProv,
                   catVars, cmdVars, remVars>>

\* Time passes.
Tick ==
    /\ now < MaxTicks
    /\ now' = now + 1
    /\ UNCHANGED <<lockVars, fireVars, disk, cfgVars, retVars, retErr, daemonVars, envVars,
                   catVars, cmdVars, remVars>>

(***************************************************************************)
(* The daemon and restore commands                                         *)
(***************************************************************************)
\* Every entry scheduled at 02:00, local backup and the provider enabled.
ValidSchedules == [text |-> [f \in Entries |-> <<D(2), Colon, D(0)>>], enabled |-> {"local"} \cup RemoteEntries]

\* The scheduler as NewWithOptions leaves it, and no retention pass yet.
SchedulerNew ==
    /\ cron = "new"
    /\ registered = {}
    /\ startRet = "none"
    /\ stopSawJobs = FALSE
    /\ notif = [f \in Entries |-> 0]
    /\ notifCtx = "none"
    /\ failed = {}
    /\ retErr = FALSE

\* The scheduler after a successful Start that registered the entries reg.
SchedulerStarted(reg) ==
    /\ cron = "running"
    /\ registered = reg
    /\ startRet = "nil"
    /\ stopSawJobs = FALSE
    /\ notif = [f \in Entries |-> 0]
    /\ notifCtx = "none"
    /\ failed = {}
    /\ retErr = FALSE

\* A process that has not touched a remote provider yet, its configuration
\* loaded.
NoRemoteOps ==
    /\ providers = <<>>
    /\ env = {}
    /\ rop = [o \in RemoteOps |-> "idle"]
    /\ ropProv = [o \in RemoteOps |-> "s3"]

\* remote.Options as WithOptions fills them in from the configuration.
RemoteOptions(prefix, maxVersions, key) ==
    [path |-> prefix, maxVersions |-> maxVersions, key |-> key]

\* The daemon's provider: no path prefix, version rotation, no encryption.
DaemonRemoteOptions == RemoteOptions(<<>>, 1, <<>>)

\* The source and the error of a catalog.List call.
ListCall(src, err) == [src |-> src, err |-> err]

\* No restore has selected a backup and no manual backup was started.
NoSelection == [mode |-> "none", shortID |-> "", provider |-> ""]
NoManual    == [pc |-> "idle", local |-> FALSE, provider |-> "", connected |-> FALSE,
                skipped |-> FALSE, ranLocal |-> FALSE, made |-> FALSE, uploaded |-> FALSE]

\* No handle built yet, nothing on the remote backend, an empty backup
\* directory, no catalog listing made and no command started.
NoCommands ==
    /\ currentVersion = [f \in RemoteEntries |-> 0]
    /\ remote = {}
    /\ catDir = [n \in DirNameSet |-> NoEntry]
    /\ listing = <<>>
    /\ listCall = ListCall("none", FALSE)
    /\ picked = [r \in Restores |-> NoSelection]
    /\ mb = NoManual

Init ==
    /\ dbName = <<"d", "b">>
    /\ schedCfg = ValidSchedules
    /\ notifyKinds = {}
    /\ SchedulerStarted({"local", "s3"})
    /\ NoRemoteOps
    /\ remoteOpt = DaemonRemoteOptions
    /\ NoCommands
    /\ holder = "none"
    /\ rpc = [r \in Restores |-> "idle"]
    /\ waited = [r \in Restores |-> FALSE]
    /\ fpc = [f \in Entries |-> "armed"]
    /\ fired = [f \in Entries |-> 0]
    /\ outcome = [f \in Entries |-> "none"]
    /\ runningJobs = 0
    /\ child = [f \in Entries |-> "none"]
    /\ written = [f \in Entries |-> 0]
    /\ ctxDone = [f \in Entries |-> FALSE]
    /\ result = [f \in Entries |-> "none"]
    /\ path = [f \in Entries |-> NoPath]
    /\ disk = [p \in Paths |-> NoFile]
    /\ now = 0
    /\ retention \in {NoRetention, Retention(TRUE, 1, FALSE, 0)}
    /\ cfgState = "valid"
    /\ selected = <<>>
    /\ removed = <<>>
    /\ applied = {}
    /\ passes = 0

Next ==
    \/ \E r \in Operator : RestoreStart(r)
    \/ \E r \in Operator : LockForRestoreTry(r)
    \/ \E r \in Operator : LockForRestoreWake(r)
    \/ \E r \in Operator : RestoreReturn(r)
    \/ \E r \in Operator : RestoreFatal(r)
    \/ \E f \in Entries : FireProbe(f)
    \/ \E f \in Entries : ProbeRelease(f)
    \/ \E f \in Entries : ProviderCreateFail(f)
    \/ \E f \in Entries : ProducerStart(f)
    \/ \E f \in Entries : ChildWrite(f)
    \/ \E f \in Entries : ChildExit(f)
    \/ \E f \in Entries : DeadlineExpire(f)
    \/ \E f \in Entries : WaitReturn(f, TRUE)
    \/ \E f \in Entries : RemoteUpload(f)
    \/ \E f \in Entries : FireReturn(f)
    \/ Tick

Spec == Init /\ [][Next]_vars


(***************************************************************************)
(* The lock protocol alone: restore commands against the daemon's probes,  *)
(* with the fairness of a running process (the retry loop keeps going).    *)
(***************************************************************************)
LockFairSpec ==
    /\ Init
    /\ [][
          \/ \E r \in Restores : RestoreStart(r)
          \/ \E r \in Restores : LockForRestoreTry(r)
          \/ \E r \in Restores : LockForRestoreWake(r)
          \/ \E r \in Restores : RestoreReturn(r)
          \/ \E r \in Restores : RestoreFatal(r)
          \/ \E f \in Entries : FireProbe(f)
          \/ \E f \in Entries : ProbeRelease(f)
          \/ \E f \in Entries : ProviderCreateFail(f)]_vars
    /\ \A r \in Restores : WF_vars(LockForRestoreTry(r)) /\ WF_vars(LockForRestoreWake(r))
    /\ \A f \in Entries : WF_vars(ProbeRelease(f))

(***************************************************************************)
(* Retention over an arbitrary backup directory                            *)
(***************************************************************************)
\* Every RetentionConfig the loaders can produce from small integers.
AllRetentions ==
    {Retention(ms, IF ms THEN m ELSE 0, ds, IF ds THEN d ELSE 0) :
        ms \in BOOLEAN, m \in 0..MaxLimit, ds \in BOOLEAN, d \in 0..MaxDays}

RetInit ==
    /\ dbName = <<"d", "b">>
    /\ schedCfg = ValidSchedules
    /\ notifyKinds = {}
    /\ SchedulerNew
    /\ NoRemoteOps
    /\ remoteOpt = DaemonRemoteOptions
    /\ NoCommands
    /\ holder = "none"
    /\ rpc = [r \in Restores |-> "idle"]
    /\ waited = [r \in Restores |-> FALSE]
    /\ fpc = [f \in Entries |-> "armed"]
    /\ fired = [f \in Entries |-> 0]
    /\ outcome = [f \in Entries |-> "none"]
    /\ runningJobs = 0
    /\ child = [f \in Entries |-> "none"]
    /\ written = [f \in Entries |-> 0]
    /\ ctxDone = [f \in Entries |-> FALSE]
    /\ result = [f \in Entries |-> "none"]
    /\ path = [f \in Entries |-> NoPath]
    /\ \E d \in [LocalPaths -> {NoFile} \cup {File(ClosedSize(1), m) : m \in 0..MaxTime}] :
         disk = [p \in Paths |-> IF p \in LocalPaths THEN d[p] ELSE NoFile]
    /\ now = MaxTime
    /\ retention \in AllRetentions
    /\ cfgState = "loaded"
    /\ selected = <<>>
    /\ removed = <<>>
    /\ applied = {}
    /\ passes = 0

\* LoadFromYAML / LoadFromEnv end in Config.Validate; a command whose
\* configuration is rejected exits before doing anything else.
ValidateConfig ==
    /\ cfgState = "loaded"
    /\ cfgState' = IF validateLocalBackup(retention) THEN "valid" ELSE "rejected"
    /\ UNCHANGED <<lockVars, fireVars, disk, now, retention, dbName, schedCfg, notifyKinds, providers,
                   remoteOpt,
                   retVars, retErr, daemonVars, envVars,
                   catVars, cmdVars, remVars>>

\* backup.Local.Run calls retention.Local.Run after a successful backup.
RetentionPass ==
    /\ cfgState = "valid"
    /\ HasRetention(retention)
    /\ passes < MaxPasses
    /\ \E backups \in findBackups(disk, "out") :
       \E bad \in SUBSET {q \in LocalPaths : disk[q].exists} :
         LET run == RetentionRun(disk, retention, dbName, backups, now, bad) IN
           /\ disk' = run.disk
           /\ selected' = run.selected
           /\ removed' = run.removed
           /\ applied' = run.applied
           /\ failed' = run.failed
           /\ retErr' = run.err
           /\ passes' = IF run.listed THEN passes + 1 ELSE passes
    /\ UNCHANGED <<lockVars, fireVars, now, cfgVars, daemonVars, envVars,
                   catVars, cmdVars, remVars>>

RetSpec == RetInit /\ [][ValidateConfig \/ RetentionPass]_vars

(***************************************************************************)
(* Loading the configuration file (LoadFromYAML)                           *)
(***************************************************************************)
\* A provider of the list: its name, enabled, whether path is set, and
\* whether the rest of it (type, timeout, type-specific config) passes
\* validateRemoteProviders.
RemoteProvider(name, enabled, hasPath, rest) ==
    [name |-> name, enabled |-> enabled, path |-> hasPath, rest |-> rest]

\* overrideProviders visiting the schema names in the given order (it
\* ranges over the map providerSchemas): findProviderOrCreate returns the
\* provider of that name, or a new enabled one with an empty config;
\* loadEnvOverride applies REMOTE_<NAME>_ENABLED (set to false) and
\* REMOTE_<NAME>_PATH when they are set; a new provider is appended.
RECURSIVE overrideProviders(_, _, _)
overrideProviders(ps, e, order) ==
    IF order = <<>> THEN ps
    ELSE LET name   == Head(order)
             found  == {i \in 1..Len(ps) : ps[i].name = name}
             Env(p) == [p EXCEPT !.enabled = IF <<name, "ENABLED">> \in e THEN FALSE ELSE @,
                                 !.path    = IF <<name, "PATH">> \in e THEN TRUE ELSE @]
             next   == IF found = {}
                       THEN Append(ps, Env(RemoteProvider(name, TRUE, FALSE, FALSE)))
                       ELSE LET i == CHOOSE k \in found : \A l \in found : k <= l
                            IN  [ps EXCEPT ![i] = Env(@)]
         IN  overrideProviders(next, e, Tail(order))

\* Config.validateRemoteProviders: no name twice, a path on every enabled
\* provider, and the per-provider checks.
validateRemoteProviders(ps) ==
    /\ \A i, j \in 1..Len(ps) : i # j => ps[i].name # ps[j].name
    /\ \A i \in 1..Len(ps) : (ps[i].enabled => ps[i].path) /\ ps[i].rest

\* LoadFromYAML after the file has been decoded: loadEnvOverrides, then
\* Config.Validate.
LoadFromYAML ==
    /\ cfgState = "file"
    /\ \E order \in Perms(Providers) :
         providers' = overrideProviders(providers, env, order)
    /\ cfgState' = IF validateRemoteProviders(providers') /\ validateLocalBackup(retention)
                   THEN "valid" ELSE "rejected"
    /\ UNCHANGED <<lockVars, fireVars, disk, now, retention, dbName, schedCfg, notifyKinds,
                   remoteOpt, retVars, retErr, daemonVars, envVars, catVars, cmdVars, remVars>>

\* A decoded file with up to two providers, named after a schema ("s3") or
\* otherwise ("b2"), in an environment that may set REMOTE_S3_ENABLED and
\* REMOTE_S3_PATH.
LoadInit ==
    /\ holder = "none"
    /\ rpc = [r \in Restores |-> "idle"]
    /\ waited = [r \in Restores |-> FALSE]
    /\ fpc = [f \in Entries |-> "armed"]
    /\ fired = [f \in Entries |-> 0]
    /\ outcome = [f \in Entries |-> "none"]
    /\ runningJobs = 0
    /\ child = [f \in Entries |-> "none"]
    /\ written = [f \in Entries |-> 0]
    /\ ctxDone = [f \in Entries |-> FALSE]
    /\ result = [f \in Entries |-> "none"]
    /\ path = [f \in Entries |-> NoPath]
    /\ disk = [p \in Paths |-> NoFile]
    /\ now = 0
    /\ retention = NoRetention
    /\ cfgState = "file"
    /\ selected = <<>>
    /\ removed = <<>>
    /\ applied = {}
    /\ passes = 0
    /\ dbName = <<"d", "b">>
    /\ schedCfg = ValidSchedules
    /\ notifyKinds = {}
    /\ SchedulerNew
    /\ LET Files == {RemoteProvider(n, e, p, TRUE) : n \in {"s3", "b2"}, e \in BOOLEAN, p \in BOOLEAN}
       IN  providers \in {<<>>} \cup {<<a>> : a \in Files} \cup {<<a, b>> : a \in Files, b \in Files}
    /\ env \in SUBSET {<<"s3", "ENABLED">>, <<"s3", "PATH">>}
    /\ rop = [o \in RemoteOps |-> "idle"]
    /\ ropProv = [o \in RemoteOps |-> "s3"]
    /\ remoteOpt = DaemonRemoteOptions
    /\ NoCommands

LoadSpec == LoadInit /\ [][LoadFromYAML]_vars

(***************************************************************************)
(* The retention pass over the file names of the output directory          *)
(***************************************************************************)
\* The pattern of findBackups, <db>-*.sql.gz*, against a file name: the
\* name starts with <db>-, and .sql.gz follows after any characters and is
\* followed by any characters.
GlobMatch(db, name) ==
    /\ HasPrefix(name, db \o <<"-">>)
    /\ \E k \in (Len(db) + 2)..(Len(name) - 1) : SubSeq(name, k, k + 1) = SqlGz

\* File names an output directory shared with other tools and databases
\* can hold: db-0.sql.gz and db-1.sql.gz.age of database db,
\* db-x-0.sql.gz of database db-x, and the copy db-0.sql.gz.bak.
GlobNames ==
    {<<"d", "b", "-", "0", ".sql", ".gz">>,
     <<"d", "b", "-", "1", ".sql", ".gz", ".age">>,
     <<"d", "b", "-", "x", "-", "0", ".sql", ".gz">>,
     <<"d", "b", "-", "0", ".sql", ".gz", ".bak">>}

\* retention.Local.Run on the directory catDir: findBackups globs and
\* sorts by modification time, the policy selects, os.Remove deletes.
RetentionByName ==
    /\ cfgState = "valid"
    /\ HasRetention(retention)
    /\ GlobOk(dbName)
    /\ passes < MaxPasses
    /\ LET matches == {n \in DOMAIN catDir : catDir[n].kind = "file" /\ GlobMatch(dbName, n)}
           cands   == {[path |-> n, mtime |-> catDir[n].mtime, size |-> 1] : n \in matches}
       IN  \E backups \in {b \in Perms(cands) :
                             \A i, j \in 1..Len(b) : i < j => b[i].mtime <= b[j].mtime} :
             LET sel == IF Len(backups) = 0 THEN <<>>
                        ELSE IF HasMaxBackups(retention)
                        THEN cleanByCount(backups, retention.max)
                        ELSE cleanByDays(backups, retention.days, now)
             IN  /\ catDir' = [n \in DOMAIN catDir |->
                                 IF \E i \in 1..Len(sel) : sel[i].path = n
                                 THEN NoEntry ELSE catDir[n]]
                 /\ selected' = sel
                 /\ removed' = sel
                 /\ applied' = IF Len(backups) = 0 THEN {}
                                ELSE IF HasMaxBackups(retention) THEN {"count"} ELSE {"days"}
    /\ passes' = passes + 1
    /\ failed' = {}
    /\ retErr' = FALSE
    /\ UNCHANGED <<lockVars, fireVars, disk, now, cfgVars, daemonVars, envVars,
                   listing, listCall, cmdVars, remVars>>

GlobInit ==
    /\ holder = "none"
    /\ rpc = [r \in Restores |-> "idle"]
    /\ waited = [r \in Restores |-> FALSE]
    /\ fpc = [f \in Entries |-> "armed"]
    /\ fired = [f \in Entries |-> 0]
    /\ outcome = [f \in Entries |-> "none"]
    /\ runningJobs = 0
    /\ child = [f \in Entries |-> "none"]
    /\ written = [f \in Entries |-> 0]
    /\ ctxDone = [f \in Entries |-> FALSE]
    /\ result = [f \in Entries |-> "none"]
    /\ path = [f \in Entries |-> NoPath]
    /\ disk = [p \in Paths |-> NoFile]
    /\ now = MaxTime
    /\ retention \in {r \in AllRetentions : validateLocalBackup(r) /\ HasRetention(r)}
    /\ cfgState = "valid"
    /\ selected = <<>>
    /\ removed = <<>>
    /\ applied = {}
    /\ passes = 0
    /\ dbName = <<"d", "b">>
    /\ schedCfg = ValidSchedules
    /\ notifyKinds = {}
    /\ SchedulerNew
    /\ NoRemoteOps
    /\ remoteOpt = DaemonRemoteOptions
    /\ currentVersion = [f \in RemoteEntries |-> 0]
    /\ remote = {}
    /\ catDir \in [GlobNames -> {NoEntry} \cup {DirEntry("file", m) : m \in 0..MaxTime}]
    /\ listing = <<>>
    /\ listCall = ListCall("none", FALSE)
    /\ picked = [r \in Restores |-> NoSelection]
    /\ mb = NoManual

GlobSpec == GlobInit /\ [][RetentionByName]_vars

(***************************************************************************)
(* The local entry over an arbitrary backup directory                      *)
(***************************************************************************)
LocalInit ==
    /\ holder = "none"
    /\ rpc = [r \in Restores |-> "idle"]
    /\ waited = [r \in Restores |-> FALSE]
    /\ fpc = [f \in Entries |-> "armed"]
    /\ fired = [f \in Entries |-> 0]
    /\ outcome = [f \in Entries |-> "none"]
    /\ runningJobs = 0
    /\ child = [f \in Entries |-> "none"]
    /\ written = [f \in Entries |-> 0]
    /\ ctxDone = [f \in Entries |-> FALSE]
    /\ result = [f \in Entries |-> "none"]
    /\ path = [f \in Entries |-> NoPath]
    /\ \E d \in [LocalPaths -> {NoFile} \cup {File(ClosedSize(1), m) : m \in 0..MaxTime}] :
         \* an artifact is closed no earlier than the time in its name
         /\ \A p \in LocalPaths : d[p].exists => d[p].mtime >= p[2]
         /\ disk = [p \in Paths |-> IF p \in LocalPaths THEN d[p] ELSE NoFile]
    /\ now = MaxTime
    /\ retention \in {r \in AllRetentions : validateLocalBackup(r)}
    /\ cfgState = "valid"
    /\ selected = <<>>
    /\ removed = <<>>
    /\ applied = {}
    /\ passes = 0
    /\ dbName \in {<<"d", "b">>, <<"d", "[">>}
    /\ schedCfg = ValidSchedules
    /\ notifyKinds = {}
    /\ SchedulerStarted({"local"})
    /\ NoRemoteOps
    /\ remoteOpt = DaemonRemoteOptions
    /\ NoCommands

LocalNext ==
    \/ FireProbe("local")
    \/ ProbeRelease("local")
    \/ ProducerStart("local")
    \/ ChildWrite("local")
    \/ ChildExit("local")
    \/ DeadlineExpire("local")
    \/ WaitReturn("local", TRUE)
    \/ FireReturn("local")

LocalSpec == LocalInit /\ [][LocalNext]_vars

\* The local entry writing to a volume on which closing a file can fail.
FlushSpec == LocalInit /\ [][LocalNext \/ WaitReturn("local", FALSE)]_vars

(***************************************************************************)
(* The scheduler from Start to Stop                                        *)
(***************************************************************************)
SchedInit ==
    /\ holder = "none"
    /\ rpc = [r \in Restores |-> "idle"]
    /\ waited = [r \in Restores |-> FALSE]
    /\ fpc = [f \in Entries |-> "armed"]
    /\ fired = [f \in Entries |-> 0]
    /\ outcome = [f \in Entries |-> "none"]
    /\ runningJobs = 0
    /\ child = [f \in Entries |-> "none"]
    /\ written = [f \in Entries |-> 0]
    /\ ctxDone = [f \in Entries |-> FALSE]
    /\ result = [f \in Entries |-> "none"]
    /\ path = [f \in Entries |-> NoPath]
    /\ disk = [p \in Paths |-> NoFile]
    /\ now = 0
    /\ retention = NoRetention
    /\ cfgState = "valid"
    /\ selected = <<>>
    /\ removed = <<>>
    /\ applied = {}
    /\ passes = 0
    /\ dbName = <<"d", "b">>
    \* each entry at "02:00", "24:00" or "x"
    /\ schedCfg \in {[text |-> t, enabled |-> e] :
                        t \in [Entries -> {<<D(2), Colon, D(0)>>, <<D(LastHour + 1), Colon, D(0)>>,
                                           <<[k |-> "x", n |-> 0]>>}],
                        e \in SUBSET ({"local"} \cup RemoteEntries)}
    /\ notifyKinds = {"success", "error"}
    /\ SchedulerNew
    /\ NoRemoteOps
    /\ remoteOpt = DaemonRemoteOptions
    /\ NoCommands

SchedNext ==
    \/ SchedulerStart
    \/ StopRequest
    \/ StopReturn
    \/ \E f \in Entries : FireProbe(f)
    \/ \E f \in Entries : ProbeRelease(f)
    \/ \E f \in Entries : ProviderCreateFail(f)
    \/ \E f \in Entries : ProducerStart(f)
    \/ \E f \in Entries : ChildWrite(f)
    \/ \E f \in Entries : ChildExit(f)
    \/ \E f \in Entries : DeadlineExpire(f)
    \/ \E f \in Entries : WaitReturn(f, TRUE)
    \/ \E f \in Entries : RemoteUpload(f)
    \/ \E f \in Entries : FireReturn(f)
    \/ \E f \in Entries : NotifierFinish(f)

SchedSpec == SchedInit /\ [][SchedNext]_vars

(***************************************************************************)
(* Remote operations of one process                                        *)
(***************************************************************************)
\* createRemoteFs, first half: SetupEnv for the provider the operation
\* works on; a failure is returned through NewProviderWithOptions.
OpSetup(o) ==
    /\ rop[o] \in {"idle", "done", "error"}
    /\ \E p \in Providers : \E order \in KeyOrders(p) :
         LET r == SetupEnv(env, p, order) IN
           /\ env' = r.env
           /\ ropProv' = [ropProv EXCEPT ![o] = p]
           /\ rop' = [rop EXCEPT ![o] = IF r.ok THEN "setup" ELSE "error"]
    /\ UNCHANGED <<lockVars, fireVars, disk, now, cfgVars, retVars, retErr, daemonVars,
                   catVars, cmdVars, remVars>>

\* createRemoteFs, second half: fs.NewFs; on success the caller has its
\* handle, on failure the error is returned as it is.
OpNewFs(o) ==
    /\ rop[o] = "setup"
    /\ \E ok \in BOOLEAN : rop' = [rop EXCEPT ![o] = IF ok THEN "ready" ELSE "error"]
    /\ UNCHANGED <<lockVars, fireVars, disk, now, cfgVars, retVars, retErr, daemonVars,
                   env, ropProv,
                   catVars, cmdVars, remVars>>

\* Provider.Run: return at once when a restore is active, else back up and
\* upload with CleanupEnv deferred.
OpBackup(o) ==
    /\ o = "backup"
    /\ rop[o] = "ready"
    /\ \E restoreActive \in BOOLEAN :
         IF restoreActive
         THEN /\ rop' = [rop EXCEPT ![o] = "done"]
              /\ env' = env
         ELSE /\ \E r \in {"done", "error"} : rop' = [rop EXCEPT ![o] = r]
              /\ env' = CleanupEnv(env, ropProv[o])
    /\ UNCHANGED <<lockVars, fireVars, disk, now, cfgVars, retVars, retErr, daemonVars,
                   ropProv,
                   catVars, cmdVars, remVars>>

\* Provider.List (called by the catalog) and Provider.Download (called by
\* the restore service) return their result or their error.
OpListOrDownload(o) ==
    /\ o \in {"list", "download"}
    /\ rop[o] = "ready"
    /\ \E r \in {"done", "error"} : rop' = [rop EXCEPT ![o] = r]
    /\ UNCHANGED <<lockVars, fireVars, disk, now, cfgVars, retVars, retErr, daemonVars,
                   env, ropProv,
                   catVars, cmdVars, remVars>>

EnvInit ==
    /\ holder = "none"
    /\ rpc = [r \in Restores |-> "idle"]
    /\ waited = [r \in Restores |-> FALSE]
    /\ fpc = [f \in Entries |-> "armed"]
    /\ fired = [f \in Entries |-> 0]
    /\ outcome = [f \in Entries |-> "none"]
    /\ runningJobs = 0
    /\ child = [f \in Entries |-> "none"]
    /\ written = [f \in Entries |-> 0]
    /\ ctxDone = [f \in Entries |-> FALSE]
    /\ result = [f \in Entries |-> "none"]
    /\ path = [f \in Entries |-> NoPath]
    /\ disk = [p \in Paths |-> NoFile]
    /\ now = 0
    /\ retention = NoRetention
    /\ cfgState = "valid"
    /\ selected = <<>>
    /\ removed = <<>>
    /\ applied = {}
    /\ passes = 0
    /\ dbName = <<"d", "b">>
    /\ schedCfg = ValidSchedules
    /\ notifyKinds = {}
    /\ SchedulerNew
    /\ NoRemoteOps
    /\ remoteOpt = DaemonRemoteOptions
    /\ NoCommands

EnvSpec ==
    /\ EnvInit
    /\ [][
          \/ \E o \in RemoteOps : OpSetup(o)
          \/ \E o \in RemoteOps : OpNewFs(o)
          \/ \E o \in RemoteOps : OpBackup(o)
          \/ \E o \in RemoteOps : OpListOrDownload(o)]_vars


(***************************************************************************)
(* Catalog listings of one process                                         *)
(***************************************************************************)
\* The source names a command can ask the catalog for: the local
\* directory, the configured providers and a name the configuration lacks.
Sources == {"local", "nope"} \cup Providers

\* Catalog.List: the local listing, or the listing of the provider
\* findProvider returns, through a handle NewProviderWithOptions builds
\* (SetupEnv, fs.NewFs) and Provider.List; the backend reports its entries
\* in any order and the map of Provider.List is ranged over in any order.
List(src) ==
    IF src = "local"
    THEN /\ \E dirOk \in BOOLEAN :
              /\ listCall' = ListCall(src, ~dirOk)
              /\ listing' = IF dirOk THEN listLocal(catDir) ELSE <<>>
         /\ UNCHANGED envVars
    ELSE IF ~findProvider(schedCfg, src)
    THEN /\ listCall' = ListCall(src, TRUE)
         /\ listing' = <<>>
         /\ UNCHANGED envVars
    ELSE \E order \in KeyOrders(src), how \in {"newFs", "list", "ok"} :
           LET s == SetupEnv(env, src, order) IN
             /\ env' = s.env
             /\ ropProv' = [ropProv EXCEPT !["list"] = src]
             /\ IF s.ok /\ how = "ok"
                THEN /\ rop' = [rop EXCEPT !["list"] = "done"]
                     /\ listCall' = ListCall(src, FALSE)
                     /\ \E entries \in Perms(UnderPath(remote, remoteOpt)) :
                        \E files \in Perms(FileMap(entries)) :
                          listing' = [i \in 1..Len(files) |->
                                        CatalogFile(files[i].name, files[i].mtime)]
                ELSE /\ rop' = [rop EXCEPT !["list"] = "error"]
                     /\ listCall' = ListCall(src, TRUE)
                     /\ listing' = <<>>

\* A command of the process asks its catalog for the backups of a source.
CatalogList(src) ==
    /\ List(src)
    /\ UNCHANGED <<lockVars, fireVars, disk, now, cfgVars, retVars, retErr, daemonVars,
                   catDir, cmdVars, remVars>>

\* A producer writes a file of the backup directory again, one second
\* after its last modification.
FileWritten(n) ==
    /\ catDir[n].kind = "file"
    /\ catDir[n].mtime < MaxTime
    /\ catDir' = [catDir EXCEPT ![n] = DirEntry("file", @.mtime + 1)]
    /\ UNCHANGED <<lockVars, fireVars, disk, now, cfgVars, retVars, retErr, daemonVars,
                   envVars, listing, listCall, cmdVars, remVars>>

\* The backup directories the catalog can find: backups written at any
\* time, a key file, a text file and a subdirectory.
CatDirs ==
    {[n \in DirNameSet |->
        IF n = DirNames[1] THEN a ELSE IF n = DirNames[2] THEN b
        ELSE IF n = DirNames[3] THEN k ELSE IF n = DirNames[4] THEN t ELSE d] :
       a \in {NoEntry} \cup {DirEntry("file", m) : m \in 0..MaxTime},
       b \in {NoEntry} \cup {DirEntry("file", m) : m \in 0..MaxTime},
       k \in {NoEntry, DirEntry("file", 0)},
       t \in {NoEntry, DirEntry("file", 0)},
       d \in {NoEntry, DirEntry("dir", 0)}}

\* What a backend can report under the provider's path: the uploaded
\* object, more than once with different times, a key file and a text file.
Backends ==
    LET BackendEntries ==
          {RemoteEntry(GetRemoteFileName(DaemonRemoteOptions, <<"d", "b">>, 1), m) : m \in 0..MaxTime}
            \cup {RemoteEntry(<<"key", ".age">>, 0), RemoteEntry(<<"notes", ".txt">>, 0)}
    IN  {S \in SUBSET BackendEntries : Cardinality(S) <= MaxEntries}

CatInit ==
    /\ holder = "none"
    /\ rpc = [r \in Restores |-> "idle"]
    /\ waited = [r \in Restores |-> FALSE]
    /\ fpc = [f \in Entries |-> "armed"]
    /\ fired = [f \in Entries |-> 0]
    /\ outcome = [f \in Entries |-> "none"]
    /\ runningJobs = 0
    /\ child = [f \in Entries |-> "none"]
    /\ written = [f \in Entries |-> 0]
    /\ ctxDone = [f \in Entries |-> FALSE]
    /\ result = [f \in Entries |-> "none"]
    /\ path = [f \in Entries |-> NoPath]
    /\ disk = [p \in Paths |-> NoFile]
    /\ now = 0
    /\ retention = NoRetention
    /\ cfgState = "valid"
    /\ selected = <<>>
    /\ removed = <<>>
    /\ applied = {}
    /\ passes = 0
    /\ dbName = <<"d", "b">>
    /\ schedCfg \in {[text |-> ValidSchedules.text, enabled |-> e] : e \in SUBSET Providers}
    /\ notifyKinds = {}
    /\ SchedulerNew
    /\ NoRemoteOps
    /\ remoteOpt = DaemonRemoteOptions
    /\ currentVersion = [f \in RemoteEntries |-> 0]
    /\ \/ remote \in Backends /\ catDir = [n \in DirNameSet |-> NoEntry]
       \/ remote = {} /\ catDir \in CatDirs
    /\ listing = <<>>
    /\ listCall = ListCall("none", FALSE)
    /\ picked = [r \in Restores |-> NoSelection]
    /\ mb = NoManual

CatNext ==
    \/ \E src \in Sources : CatalogList(src)
    \/ \E n \in DirNameSet : FileWritten(n)

CatSpec == CatInit /\ [][CatNext]_vars


(***************************************************************************)
(* The restore command (runRestore) past LockForRestore                    *)
(***************************************************************************)
\* The positions of runRestore between LockForRestore's return and the end
\* of the process.
Held == {"holding", "selected", "confirmed", "located", "restoring"}

\* What --provider, --id and --latest carry: validateRestoreFlags lets
\* exactly one of --id and --latest through.
Selection(provider, mode, shortID) == [mode |-> mode, shortID |-> shortID, provider |-> provider]

\* The end of a process: the OS closes its descriptors, which drops a
\* flock the process has.
ProcessExit(h, p) == IF h = p THEN "none" ELSE h

RestoreEndsHolding(r, fatal) ==
    /\ holder' = holder
    /\ rpc' = [rpc EXCEPT ![r] = "idle"]
    /\ waited' = [waited EXCEPT ![r] = FALSE]
    /\ picked' = [picked EXCEPT ![r] = NoSelection]

\* runRestore ends: by return (the deferred UnlockForRestore runs) or in
\* log.Fatalf (os.Exit without the deferred calls).  The flags of the
\* process end with it.
RestoreEnds(r, fatal) ==
    /\ holder' = IF fatal THEN ProcessExit(holder, r) ELSE ProcessExit(Unlock(holder, r), r)
    /\ rpc' = [rpc EXCEPT ![r] = "idle"]
    /\ waited' = [waited EXCEPT ![r] = FALSE]
    /\ picked' = [picked EXCEPT ![r] = NoSelection]

RestoreGoes(r, pos) ==
    /\ rpc' = [rpc EXCEPT ![r] = pos]
    /\ UNCHANGED <<holder, waited>>

\* determineShortID after catalog.List returned: the id of the first
\* listed backup under --latest.
determineShortID(listErr, backups) ==
    IF listErr \/ Len(backups) = 0
    THEN [err |-> TRUE, shortID |-> ""]
    ELSE [err |-> FALSE, shortID |-> backups[1].shortID]

\* determineShortID: --id is returned as it is (the id of db-0.sql.gz
\* written at 0, or one of no backup), --latest lists the catalog of the
\* provider; an error ends the command in log.Fatalf.
RestoreSelect(r) ==
    /\ rpc[r] = "holding"
    /\ \E src \in Sources, mode \in {"id", "latest"} :
         IF mode = "id"
         THEN /\ \E id \in {GenerateShortID(DirNames[1], 0), "00000000"} : picked' = [picked EXCEPT ![r] = Selection(src, mode, id)]
              /\ RestoreGoes(r, "selected")
              /\ UNCHANGED <<listing, listCall, envVars>>
         ELSE /\ List(src)
              /\ LET d == determineShortID(listCall'.err, listing') IN
                   IF d.err
                   THEN RestoreEnds(r, TRUE)
                   ELSE /\ picked' = [picked EXCEPT ![r] = Selection(src, mode, d.shortID)]
                        /\ RestoreGoes(r, "selected")
    /\ UNCHANGED <<fireVars, disk, now, cfgVars, retVars, retErr, daemonVars,
                   catDir, mb, remVars>>

\* TestConnection and checkAndConfirmRestore: a failed connection is
\* fatal, the user may cancel (return), otherwise the restore goes on.
RestoreConfirm(r) ==
    /\ rpc[r] = "selected"
    /\ \E how \in {"connection", "cancel", "go"} :
         IF how = "go"
         THEN RestoreGoes(r, "confirmed") /\ UNCHANGED picked
         ELSE RestoreEnds(r, how = "connection")
    /\ UNCHANGED <<fireVars, disk, now, cfgVars, retVars, retErr, daemonVars, envVars,
                   catVars, mb, remVars>>

\* Restore.Run, first part: list the catalog again and take the first
\* file with the selected id; an error is fatal in runRestore.
RestoreLocate(r) ==
    /\ rpc[r] = "confirmed"
    /\ List(picked[r].provider)
    /\ IF listCall'.err \/ \A i \in 1..Len(listing') : listing'[i].shortID # picked[r].shortID
       THEN RestoreEnds(r, TRUE)
       ELSE RestoreGoes(r, "located") /\ UNCHANGED picked
    /\ UNCHANGED <<fireVars, disk, now, cfgVars, retVars, retErr, daemonVars,
                   catDir, mb, remVars>>

\* toReader: a file named *.age needs the configured encryption key.
Readable(files, shortID, key) ==
    \A i \in 1..Len(files) :
       (files[i].shortID = shortID /\ \A j \in 1..(i - 1) : files[j].shortID # shortID)
          => ~(HasSuffix(files[i].name, Age) /\ key = <<>>)

\* Restore.Run, second part: remotePath (a handle and Provider.Download)
\* for a provider, os.Open and toReader; then pg_restore is started.
RestoreOpen(r) ==
    /\ rpc[r] = "located"
    /\ LET src == picked[r].provider IN
       \E opened \in {ok \in BOOLEAN : ok => Readable(listing, picked[r].shortID, remoteOpt.key)} :
         /\ IF src = "local"
            THEN /\ UNCHANGED envVars
                 /\ IF opened THEN RestoreGoes(r, "restoring") /\ UNCHANGED picked
                    ELSE RestoreEnds(r, TRUE)
            ELSE \E order \in KeyOrders(src), downloaded \in BOOLEAN :
                   LET u == SetupEnv(env, src, order) IN
                     /\ env' = u.env
                     /\ ropProv' = [ropProv EXCEPT !["download"] = src]
                     /\ rop' = [rop EXCEPT !["download"] =
                                  IF u.ok /\ downloaded THEN "done" ELSE "error"]
                     /\ IF u.ok /\ downloaded /\ opened
                        THEN RestoreGoes(r, "restoring") /\ UNCHANGED picked
                        ELSE RestoreEnds(r, TRUE)
    /\ UNCHANGED <<fireVars, disk, now, cfgVars, retVars, retErr, daemonVars,
                   catVars, mb, remVars>>

\* executePgRestore: pg_restore ends; success returns from runRestore, a
\* failure is fatal.
RestorePgRestore(r) ==
    /\ rpc[r] = "restoring"
    /\ \E ok \in BOOLEAN : RestoreEnds(r, ~ok)
    /\ UNCHANGED <<fireVars, disk, now, cfgVars, retVars, retErr, daemonVars, envVars,
                   catVars, mb, remVars>>

\* Restore commands on a host whose daemon made up to two backups, the
\* first at 0 and the second one second later, and uploaded one.
RestoreInit ==
    /\ holder = "none"
    /\ rpc = [r \in Restores |-> "idle"]
    /\ waited = [r \in Restores |-> FALSE]
    /\ fpc = [f \in Entries |-> "armed"]
    /\ fired = [f \in Entries |-> 0]
    /\ outcome = [f \in Entries |-> "none"]
    /\ runningJobs = 0
    /\ child = [f \in Entries |-> "none"]
    /\ written = [f \in Entries |-> 0]
    /\ ctxDone = [f \in Entries |-> FALSE]
    /\ result = [f \in Entries |-> "none"]
    /\ path = [f \in Entries |-> NoPath]
    /\ disk = [p \in Paths |-> NoFile]
    /\ now = 0
    /\ retention = NoRetention
    /\ cfgState = "valid"
    /\ selected = <<>>
    /\ removed = <<>>
    /\ applied = {}
    /\ passes = 0
    /\ dbName = <<"d", "b">>
    /\ schedCfg = ValidSchedules
    /\ notifyKinds = {}
    /\ SchedulerStarted(Entries)
    /\ NoRemoteOps
    /\ remoteOpt = DaemonRemoteOptions
    /\ currentVersion = [f \in RemoteEntries |-> 0]
    /\ remote = {RemoteEntry(GetRemoteFileName(DaemonRemoteOptions, <<"d", "b">>, 1), 0)}
    /\ catDir \in {[n \in DirNameSet |->
                       IF n = DirNames[1] THEN a ELSE IF n = DirNames[2] THEN b ELSE NoEntry] :
                     a \in {NoEntry, DirEntry("file", 0)},
                     b \in {NoEntry, DirEntry("file", 1)}}
    /\ listing = <<>>
    /\ listCall = ListCall("none", FALSE)
    /\ picked = [r \in Restores |-> NoSelection]
    /\ mb = NoManual

RestoreNext ==
    \/ \E r \in Restores : RestoreStart(r)
    \/ \E r \in Restores : LockForRestoreTry(r)
    \/ \E r \in Restores : LockForRestoreWake(r)
    \/ \E r \in Restores : RestoreSelect(r)
    \/ \E r \in Restores : RestoreConfirm(r)
    \/ \E r \in Restores : RestoreLocate(r)
    \/ \E r \in Restores : RestoreOpen(r)
    \/ \E r \in Restores : RestorePgRestore(r)
    \/ \E f \in RemoteEntries : FireProbe(f)
    \/ \E f \in RemoteEntries : ProbeRelease(f)
    \/ \E f \in RemoteEntries : ProviderCreateFail(f)

RestoreSpec == RestoreInit /\ [][RestoreNext]_vars

(***************************************************************************)
(* The manual backup command (runBackup)                                   *)
(***************************************************************************)
\* IsRestoreRunning of a process that is no restore: TryLock, and Unlock
\* when it got the lock.
IsRestoreRunning(h) == ~TryLock(h, "backup").locked

\* runBackup up to the local part: the flags --local and --provider,
\* TestConnection (fatal on failure) and checkProvider (fatal when the
\* named provider is unknown or disabled).
ManualStart(local, provider) ==
    /\ mb.pc = "idle"
    /\ \E connOk \in BOOLEAN :
         mb' = [NoManual EXCEPT
                  !.local = local, !.provider = provider, !.connected = connOk,
                  !.pc = IF connOk /\ (provider = "" \/ findProvider(schedCfg, provider))
                         THEN "checked" ELSE "done"]
    /\ UNCHANGED <<lockVars, fireVars, disk, now, cfgVars, retVars, retErr, daemonVars, envVars,
                   catVars, picked, remVars>>

\* The local part, entered only with --local: skip and return when a
\* restore is running, else backupService.Run writes the artifact into the
\* backup directory or fails, which is fatal.
ManualLocal ==
    /\ mb.pc = "checked"
    /\ IF ~mb.local
       THEN /\ mb' = [mb EXCEPT !.pc = "remote"]
            /\ disk' = disk
       ELSE IF IsRestoreRunning(holder)
       THEN /\ mb' = [mb EXCEPT !.pc = "done", !.skipped = TRUE]
            /\ disk' = disk
       ELSE \E size \in 0..MaxBytes :
              LET ok == size > 0 IN
              /\ mb' = [mb EXCEPT !.pc = IF ok THEN "remote" ELSE "done",
                                  !.ranLocal = TRUE, !.made = ok]
              /\ disk' = IF ok
                         THEN [disk EXCEPT ![OutputPath("local", now)] = File(ClosedSize(size), now)]
                         ELSE disk
    /\ UNCHANGED <<lockVars, fireVars, now, cfgVars, retVars, retErr, daemonVars, envVars,
                   catVars, picked, remVars>>

\* The remote part, entered only with a provider: skip and return when a
\* restore is running, else build the handle and back up to the provider.
ManualRemote ==
    /\ mb.pc = "remote"
    /\ IF mb.provider = ""
       THEN /\ mb' = [mb EXCEPT !.pc = "done"]
            /\ UNCHANGED <<remote, env>>
       ELSE IF IsRestoreRunning(holder)
       THEN /\ mb' = [mb EXCEPT !.pc = "done", !.skipped = TRUE]
            /\ UNCHANGED <<remote, env>>
       ELSE \E order \in KeyOrders(mb.provider), ok \in BOOLEAN :
              LET u  == SetupEnv(env, mb.provider, order)
                  up == u.ok /\ ok IN
              /\ env' = IF u.ok THEN CleanupEnv(u.env, mb.provider) ELSE u.env
              /\ mb' = [mb EXCEPT !.pc = "done", !.uploaded = up]
              /\ remote' = IF up
                           THEN Rcat(remote,
                                     RemotePathFor(remoteOpt,
                                        GetRemoteFileName(remoteOpt, dbName, NewProviderVersion(0))),
                                     now)
                           ELSE remote
    /\ UNCHANGED <<lockVars, fireVars, disk, now, cfgVars, retVars, retErr, daemonVars,
                   rop, ropProv, catVars, picked, currentVersion>>

\* The process has ended; the operator may run the command again.
ManualAgain ==
    /\ mb.pc = "done"
    /\ mb' = NoManual
    /\ UNCHANGED <<lockVars, fireVars, disk, now, cfgVars, retVars, retErr, daemonVars, envVars,
                   catVars, picked, remVars>>

ManualInit ==
    /\ holder = "none"
    /\ rpc = [r \in Restores |-> "idle"]
    /\ waited = [r \in Restores |-> FALSE]
    /\ fpc = [f \in Entries |-> "armed"]
    /\ fired = [f \in Entries |-> 0]
    /\ outcome = [f \in Entries |-> "none"]
    /\ runningJobs = 0
    /\ child = [f \in Entries |-> "none"]
    /\ written = [f \in Entries |-> 0]
    /\ ctxDone = [f \in Entries |-> FALSE]
    /\ result = [f \in Entries |-> "none"]
    /\ path = [f \in Entries |-> NoPath]
    /\ disk = [p \in Paths |-> NoFile]
    /\ now = 0
    /\ retention = NoRetention
    /\ cfgState = "valid"
    /\ selected = <<>>
    /\ removed = <<>>
    /\ applied = {}
    /\ passes = 0
    /\ dbName = <<"d", "b">>
    /\ schedCfg = ValidSchedules
    /\ notifyKinds = {}
    /\ SchedulerNew
    /\ NoRemoteOps
    /\ remoteOpt = DaemonRemoteOptions
    /\ NoCommands

\* The command next to one restore command, which finds the lock free:
\* the probe of the backup command takes and drops it in one call.
ManualNext ==
    \/ \E local \in BOOLEAN, provider \in {""} \cup Providers \cup {"nope"} :
          ManualStart(local, provider)
    \/ ManualLocal
    \/ ManualRemote
    \/ ManualAgain
    \/ \E r \in Operator : RestoreStart(r)
    \/ \E r \in Operator : LockForRestoreTry(r)
    \/ \E r \in Operator : RestoreReturn(r)
    \/ \E r \in Operator : RestoreFatal(r)
    \/ Tick

ManualSpec == ManualInit /\ [][ManualNext]_vars

\* The command next to the daemon: the daemon is another process with its
\* own flock handle, and a fire of it holds the lock between the TryLock
\* and the Unlock of its probe.
ProbeSpec == ManualInit /\ [][ManualNext \/ SchedulerStart \/ LocalNext]_vars

(***************************************************************************)
(* Fires of the remote entry under every provider configuration            *)
(***************************************************************************)
\* The daemon with any provider options Config.Validate accepts: with and
\* without a path prefix, max_versions from 0 up, with and without an
\* encryption key.
RemoteInit ==
    /\ holder = "none"
    /\ rpc = [r \in Restores |-> "idle"]
    /\ waited = [r \in Restores |-> FALSE]
    /\ fpc = [f \in Entries |-> "armed"]
    /\ fired = [f \in Entries |-> 0]
    /\ outcome = [f \in Entries |-> "none"]
    /\ runningJobs = 0
    /\ child = [f \in Entries |-> "none"]
    /\ written = [f \in Entries |-> 0]
    /\ ctxDone = [f \in Entries |-> FALSE]
    /\ result = [f \in Entries |-> "none"]
    /\ path = [f \in Entries |-> NoPath]
    /\ disk = [p \in Paths |-> NoFile]
    /\ now = 0
    /\ retention = NoRetention
    /\ cfgState = "valid"
    /\ selected = <<>>
    /\ removed = <<>>
    /\ applied = {}
    /\ passes = 0
    /\ dbName = <<"d", "b">>
    /\ schedCfg = ValidSchedules
    /\ notifyKinds = {}
    /\ SchedulerStarted(RemoteEntries)
    /\ NoRemoteOps
    /\ remoteOpt \in {RemoteOptions(p, v, k) :
                        p \in {<<>>, <<"p">>}, v \in 0..MaxRotation, k \in {<<>>, <<"k">>}}
    /\ NoCommands

RemoteNext ==
    \/ \E f \in RemoteEntries : FireProbe(f)
    \/ \E f \in RemoteEntries : ProbeRelease(f)
    \/ \E f \in RemoteEntries : ProviderCreateFail(f)
    \/ \E f \in RemoteEntries : ProducerStart(f)
    \/ \E f \in RemoteEntries : ChildWrite(f)
    \/ \E f \in RemoteEntries : ChildExit(f)
    \/ \E f \in RemoteEntries : DeadlineExpire(f)
    \/ \E f \in RemoteEntries : WaitReturn(f, TRUE)
    \/ \E f \in RemoteEntries : RemoteUpload(f)
    \/ \E f \in RemoteEntries : FireReturn(f)
    \/ Tick

RemoteSpec == RemoteInit /\ [][RemoteNext]_vars

(***************************************************************************)
(* Properties                                                              *)
(***************************************************************************)
\* A scheduled backup is in flight: its probe returned false and its handler
\* has not returned yet.
InFlight(f) == fpc[f] \in {"entered", "dumping", "produced", "uploaded", "uploadFailed"}

\* C1: a restore holding the restore lock and a scheduled backup (local or
\* remote) that has passed its IsRestoreRunning probe never run at the same
\* time.
C1_NoRestoreDuringBackup ==
    \A r \in Restores, f \in Entries : ~(rpc[r] = "holding" /\ InFlight(f))

\* C2: a fire that occurs while a restore holds the lock is skipped: the
\* handler is back to waiting with the skip logged, no dump process starts,
\* no file is touched, the running-job counter is unchanged; and a dump only
\* ever starts in a fire whose own probe found the lock free (a skipped fire
\* is not retried).
C2_FireSkippedWhileRestoreHolds ==
    [][\A f \in Entries :
         /\ (fired'[f] = fired[f] + 1 /\ holder \in Restores)
              => /\ fpc'[f] = "armed"
                 /\ outcome'[f] = "skipped"
                 /\ child' = child
                 /\ disk' = disk
                 /\ runningJobs' = runningJobs
         /\ (child'[f] = "running" /\ child[f] # "running") => outcome[f] = "probing"]_vars

C2_Witness ==
    \E f \in Entries : outcome[f] = "skipped" /\ fpc[f] = "armed" /\ holder \in Restores

C5_FailedDumpLeavesNoArtifact ==
    \A f \in Entries :
        (fpc[f] = "produced" /\ child[f] = "exit1")
          => (result[f] = "err" /\ ~disk[path[f]].exists)

C5_Witness ==
    \E f \in Entries :
        fpc[f] = "produced" /\ child[f] = "exit1" /\ written[f] > 0 /\ result[f] = "err"

\* C6: when pg_dump exits successfully without having written a byte, Run
\* returns an error and no file is left at the output path.
C6_EmptyDumpIsFailure ==
    \A f \in Entries :
        (fpc[f] = "produced" /\ child[f] = "exit0" /\ written[f] = 0)
          => (result[f] = "err" /\ ~disk[path[f]].exists)

\* C7: a deadline that expires while pg_dump is writing kills the child (no
\* expired fire has a running child), and Run then returns an error with the
\* partial file removed.
C7_DeadlineKillsAndCleans ==
    \A f \in Entries :
        ctxDone[f] =>
          /\ child[f] # "running"
          /\ fpc[f] = "produced" => (result[f] = "err" /\ ~disk[path[f]].exists)

C7_Witness ==
    \E f \in Entries :
        fpc[f] = "produced" /\ ctxDone[f] /\ child[f] = "killed" /\ written[f] > 0


\* The paths of a sequence of backup files.
PathsOf(sel) == {sel[i].path : i \in 1..Len(sel)}

\* The backup files present in the output directory.
Present == {p \in LocalPaths : disk[p].exists}

\* C8: a keep-last-N pass over count candidates selects nothing when
\* count <= N, and otherwise selects exactly count - N distinct candidates,
\* listed oldest first, none of them newer than a candidate it keeps.
C8_KeepLastN ==
    [][(passes' = passes + 1 /\ HasMaxBackups(retention)) =>
         LET count == Cardinality(Present)
             N     == retention.max
             sel   == selected'
         IN  /\ count <= N => sel = <<>>
             /\ count > N =>
                  /\ Len(sel) = count - N
                  /\ Cardinality(PathsOf(sel)) = count - N
                  /\ PathsOf(sel) \subseteq Present
                  /\ \A i \in 1..Len(sel) : sel[i].mtime = disk[sel[i].path].mtime
                  /\ \A i, j \in 1..Len(sel) : i < j => sel[i].mtime <= sel[j].mtime
                  /\ \A p \in PathsOf(sel), q \in Present \ PathsOf(sel) :
                       disk[p].mtime <= disk[q].mtime]_vars

C8_Witness ==
    /\ applied = {"count"}
    /\ retention.max = 1
    /\ Len(selected) = 2
    /\ removed = selected
    /\ selected[1].mtime < selected[2].mtime
    /\ Cardinality(Present) = retention.max

\* C9: a keep-younger-than-D-days pass selects exactly the candidates whose
\* modification time is strictly before now - D days, each once; a candidate
\* exactly at the cutoff is kept.
C9_KeepYoungerThanD ==
    [][(passes' = passes + 1 /\ ~HasMaxBackups(retention) /\ HasRetentionDays(retention)) =>
         LET cutoff == now - retention.days * DayLen
             sel    == selected'
         IN  /\ PathsOf(sel) = {p \in Present : disk[p].mtime < cutoff}
             /\ Cardinality(PathsOf(sel)) = Len(sel)
             /\ \A p \in Present : disk[p].mtime = cutoff => p \notin PathsOf(sel)]_vars

C9_Witness ==
    /\ applied = {"days"}
    /\ removed # <<>>
    /\ removed = selected
    /\ \E p \in Present : disk[p].mtime = now - retention.days * DayLen

\* C10: no retention pass consults both policies, and a configuration that
\* sets both never validates, never reaches a retention pass and never has a
\* file deleted.
C10_NeverBothPolicies ==
    /\ [](Cardinality(applied) <= 1)
    /\ []((HasMaxBackups(retention) /\ HasRetentionDays(retention))
            => (cfgState # "valid" /\ passes = 0))
    /\ [][(HasMaxBackups(retention) /\ HasRetentionDays(retention)) => disk' = disk]_vars

C10_Witness ==
    /\ HasMaxBackups(retention) /\ HasRetentionDays(retention)
    /\ retention.max >= 1 /\ retention.days >= 1
    /\ cfgState = "rejected"
    /\ Cardinality(Present) > retention.max

\* C11: with no retention policy configured a retention run deletes
\* nothing, removes nothing and returns no error, and a step of a backup
\* run changes no file of the output directory other than the artifact the
\* run is writing.
C11_NoPolicyDeletesNothing ==
    /\ [](retention = NoRetention =>
            \A backups \in findBackups(disk, "out") :
              LET run == RetentionRun(disk, NoRetention, dbName, backups, now, {}) IN
                run.disk = disk /\ run.removed = <<>> /\ ~run.err)
    /\ [][retention = NoRetention =>
            /\ \A p \in LocalPaths :
                 p \notin ({path[f] : f \in LocalEntries} \cup {path'[f] : f \in LocalEntries})
                   => disk'[p] = disk[p]
            /\ removed' = <<>>
            /\ passes' = passes]_vars

C11_Witness ==
    /\ retention = NoRetention
    /\ fpc["local"] = "produced"
    /\ result["local"] = "path"
    /\ Cardinality(Present \ {path["local"]}) >= 2

\* C12: in a retention pass a candidate whose deletion fails is skipped:
\* the pass returns no error, the candidates reported removed are exactly
\* the selected ones whose deletion did not fail, in order, and exactly
\* their files are gone.
C12_DeleteFailureSkipped ==
    [][passes' = passes + 1 =>
         LET bad     == failed'
             Done(b) == b.path \notin bad
         IN  /\ ~retErr'
             /\ bad \subseteq PathsOf(selected')
             /\ removed' = SelectSeq(selected', Done)
             /\ \A p \in Paths :
                  disk'[p] = IF p \in PathsOf(selected') \ bad THEN NoFile ELSE disk[p]]_vars

C12_Witness ==
    /\ passes > 0
    /\ ~retErr
    /\ \E i, j \in 1..Len(selected) :
         /\ i < j
         /\ selected[i].path \in failed
         /\ disk[selected[i].path].exists
         /\ selected[j].path \in PathsOf(removed)
         /\ ~disk[selected[j].path].exists

\* C13: when the retention pass that follows a successful dump returns an
\* error, Run still returns the artifact path and the artifact, closed at
\* its full size, is on disk.
C13_RetentionFailureKeepsBackup ==
    [][\A f \in LocalEntries :
         (fpc[f] = "dumping" /\ fpc'[f] = "produced" /\ retErr')
           => /\ result'[f] = "path"
              /\ disk'[path[f]] = File(ClosedSize(written[f]), now)]_vars

C13_Witness ==
    /\ retErr
    /\ HasRetention(retention)
    /\ fpc["local"] = "produced"
    /\ result["local"] = "path"
    /\ disk[path["local"]].exists

\* C14: the running-job counter equals the number of local fires between
\* passing the probe and returning: it goes up by one when a local fire
\* passes the probe and down by one when it returns, whatever the result,
\* is never negative, and no step of a remote fire changes it.
C14_RunningJobsCountsLocalFires ==
    /\ [](runningJobs = Cardinality({f \in LocalEntries : InFlight(f)}))
    /\ [](runningJobs >= 0)
    /\ [][\A f \in LocalEntries :
            /\ (fpc[f] = "probed" /\ fpc'[f] = "entered") => runningJobs' = runningJobs + 1
            /\ (InFlight(f) /\ fpc'[f] = "armed") => runningJobs' = runningJobs - 1]_vars
    /\ [][\A f \in RemoteEntries : fpc'[f] # fpc[f] => runningJobs' = runningJobs]_vars

C14_Witness ==
    /\ runningJobs = 2
    /\ \E f \in LocalEntries : fpc[f] = "produced" /\ result[f] = "err"
    /\ \E f \in LocalEntries : fpc[f] = "dumping"

\* C15: when the conversion or the registration of a schedule that Start
\* attempts fails, Start returns an error, cron is never started and no
\* entry ever fires, the entries registered before the failing one
\* included.
C15_StartFailsFast ==
    /\ []((\E f \in Entries : Attempted(schedCfg, f) /\ ~RegisterOk(schedCfg.text[f]))
            => /\ startRet # "nil"
               /\ cron = "new"
               /\ \A f \in Entries : fired[f] = 0 /\ fpc[f] = "armed")
    /\ [](startRet = "err" => cron = "new")

C15_Witness ==
    /\ startRet = "err"
    /\ registered # {}
    /\ cron = "new"

\* C16: Stop returns only when no fire is executing, and from the moment
\* cron.Stop has been called no new fire begins.
C16_StopWaitsForFires ==
    /\ [](cron = "stopped" =>
            \A f \in Entries : fpc[f] = "armed" /\ child[f] # "running")
    /\ [][(cron = "stopping" \/ cron = "stopped") => fired' = fired]_vars
    /\ [][cron = "stopped" => fpc' = fpc]_vars

C16_Witness ==
    /\ cron = "stopped"
    /\ stopSawJobs
    /\ \E f \in Entries : outcome[f] \in {"ok", "failed"}

\* C17: the return of a failed fire leaves the process running and the
\* entry registered and waiting, and while cron runs and the bound on fires
\* allows the entry can fire again.
C17_FailedFireStaysScheduled ==
    /\ [][\A f \in Entries :
            (fpc[f] # "armed" /\ fpc'[f] = "armed" /\ outcome'[f] = "failed")
              => (cron' = cron /\ registered' = registered /\ startRet' = startRet)]_vars
    /\ [](\A f \in Entries :
            (outcome[f] = "failed" /\ fpc[f] = "armed" /\ f \in registered
               /\ cron = "running" /\ SumFired(Entries) < MaxFires)
              => ENABLED FireProbe(f))

\* A remote entry fires for the second time with the variables its first
\* fire left behind when the provider could not be created.
C17_Witness ==
    \E f \in RemoteEntries :
        /\ fired[f] >= 2
        /\ fpc[f] = "entered"
        /\ TypeName(f) \in env
        /\ cron = "running"

\* C18: a fire whose backup has finished can return whatever the
\* notification goroutines are doing, the result it logs is that of the
\* backup, and a notification goroutine that finishes, delivered or not,
\* changes nothing of the scheduler.
C18_NotificationIndependent ==
    /\ [](\A f \in Entries :
            (fpc[f] \in {"uploaded", "uploadFailed"} \/ (fpc[f] = "produced" /\ f \in LocalEntries))
              => ENABLED FireReturn(f))
    /\ [][\A f \in Entries :
            (InFlight(f) /\ fpc'[f] = "armed" /\ fpc[f] # "entered")
              => outcome'[f] = IF result[f] = "path" /\ fpc[f] # "uploadFailed"
                               THEN "ok" ELSE "failed"]_vars
    /\ [][(\E f \in Entries : notif'[f] < notif[f])
            => UNCHANGED <<fpc, fired, outcome, runningJobs, result, cron, registered, disk>>]_vars

C18_Witness ==
    \E f \in LocalEntries :
        /\ fpc[f] = "armed"
        /\ outcome[f] = "ok"
        /\ notif[f] > 0
        /\ runningJobs = 0

\* C19: when no remote operation of the process is in progress, none of
\* the providers' variables is set.
C19_EnvCleanAfterOperation ==
    (\A o \in RemoteOps : rop[o] \in {"idle", "done", "error"}) => env = {}

\* C20: no step of a remote fire goes through the retention engine or
\* changes a file of the local output directory, whatever retention the
\* local backup is configured with.
C20_RemoteFlowNeverPrunes ==
    [][\A f \in RemoteEntries : fpc'[f] # fpc[f] =>
         /\ passes' = passes
         /\ selected' = selected /\ removed' = removed /\ applied' = applied
         /\ \A p \in LocalPaths : disk'[p] = disk[p]]_vars

C20_Witness ==
    /\ HasRetention(retention)
    /\ Present # {}
    /\ \E f \in RemoteEntries : fpc[f] = "uploaded" /\ result[f] = "path"


\* C21: a successful listing of a remote has at most one entry per name,
\* the entry of a name carries the latest modification time the backend
\* reports under that name, and every entry's name ends in .sql.gz or
\* .sql.gz.age.
C21_RemoteListDeduplicated ==
    (listCall.src \in Providers /\ ~listCall.err) =>
      LET under == UnderPath(remote, remoteOpt) IN
        /\ \A i, j \in 1..Len(listing) : i # j => listing[i].name # listing[j].name
        /\ \A i \in 1..Len(listing) :
             /\ \E e \in under : e.name = listing[i].name /\ e.mtime = listing[i].modTime
             /\ \A e \in under : e.name = listing[i].name => e.mtime <= listing[i].modTime
        /\ \A i \in 1..Len(listing) :
             HasSuffix(listing[i].name, SqlGz) \/ HasSuffix(listing[i].name, SqlGz \o Age)

\* C22: a successful local listing holds exactly the entries of the backup
\* directory that are not directories and whose name ends in .sql.gz or
\* .sql.gz.age, each once, and an entry is marked encrypted exactly when
\* its name ends in .age.
C22_LocalListExactlyBackups ==
    (listCall.src = "local" /\ ~listCall.err) =>
      /\ {listing[i].name : i \in 1..Len(listing)}
           = {n \in DirNameSet :
                /\ catDir[n].kind = "file"
                /\ (HasSuffix(n, SqlGz) \/ HasSuffix(n, SqlGz \o Age))}
      /\ \A i, j \in 1..Len(listing) : i # j => listing[i].name # listing[j].name
      /\ \A i \in 1..Len(listing) : listing[i].encrypted <=> HasSuffix(listing[i].name, Age)


\* C23: a Catalog.List for a source that is neither "local" nor a
\* configured and enabled provider returns an error and no listing, and the
\* call builds no remote handle and sets no environment variable.
C23_UnknownSourceIsError ==
    /\ []((listCall.src \notin {"none", "local"} /\ ~(listCall.src \in Providers
                                                       /\ listCall.src \in schedCfg.enabled))
            => (listCall.err /\ listing = <<>>))
    /\ [][((listCall' # listCall \/ listing' # listing)
             /\ listCall'.src # "local"
             /\ ~(listCall'.src \in Providers /\ listCall'.src \in schedCfg.enabled))
            => (listCall'.err /\ env' = env /\ rop' = rop /\ ropProv' = ropProv)]_vars

C23_Witness ==
    /\ listCall = ListCall("gd", TRUE)
    /\ "gd" \notin schedCfg.enabled
    /\ rop["list"] = "done"
    /\ env # {}


C25_RemoteFileNaming ==
    [][\A f \in RemoteEntries : (fpc[f] = "produced" /\ fpc'[f] = "uploaded") =>
         LET ext  == IF remoteOpt.key = <<>> THEN <<".sql", ".gz">>
                     ELSE <<".sql", ".gz", ".age">>
             file == IF remoteOpt.maxVersions > 0
                     THEN dbName \o <<"-v">> \o Itoa(currentVersion[f]) \o ext
                     ELSE dbName \o ext
             full == IF remoteOpt.path = <<>> THEN file
                     ELSE remoteOpt.path \o <<"/">> \o file
         IN  /\ \E e \in remote' : e.name = full /\ remote' \ {e} \subseteq remote
             /\ \A e \in remote' \ remote :
                  /\ HasSuffix(e.name, <<".age">>) <=> remoteOpt.key # <<>>
                  /\ (\E i \in 1..Len(e.name) : e.name[i] = "-v") <=> remoteOpt.maxVersions > 0
                  /\ (\E i \in 1..Len(e.name) : e.name[i] = "/") <=> remoteOpt.path # <<>>]_vars

C25_Witness ==
    /\ \E f \in RemoteEntries : fpc[f] = "uploaded"
    /\ remoteOpt.key # <<>> /\ remoteOpt.maxVersions > 0 /\ remoteOpt.path # <<>>
    /\ remote = {RemoteEntry(<<"p", "/", "d", "b", "-v", "1", ".sql", ".gz", ".age">>, now)}


C26_RestoreHoldsLockThroughout ==
    /\ [](\A r \in Restores : rpc[r] \in Held => holder = r)
    /\ [][\A r \in Restores : (rpc[r] \in Held /\ rpc'[r] = "idle") =>
             /\ holder' = "none"
             /\ TryLock(holder', "daemon").locked]_vars

C26_Witness ==
    /\ rpc["restore1"] = "restoring"
    /\ waited["restore1"]
    /\ holder = "restore1"
    /\ rpc["restore2"] = "sleeping"
    /\ \E f \in RemoteEntries : outcome[f] = "skipped"

\* C27: restore --latest restores the most recent backup: the backup it
\* selects has the greatest modification time among the backups the catalog
\* listed for the provider.
C27_LatestIsMostRecent ==
    [][\A r \in Restores :
         (rpc[r] = "holding" /\ rpc'[r] = "selected" /\ picked'[r].mode = "latest") =>
            \E i \in 1..Len(listing') :
               /\ listing'[i].shortID = picked'[r].shortID
               /\ \A j \in 1..Len(listing') : listing'[j].modTime <= listing'[i].modTime]_vars


\* C28: the manual backup command invoked with neither --local nor
\* --provider makes a local backup: once it has ended with the database
\* reachable and no restore running, it has run the local backup.
C28_DefaultIsLocalBackup ==
    (mb.pc = "done" /\ ~mb.local /\ mb.provider = "" /\ mb.connected /\ ~mb.skipped)
        => mb.ranLocal


\* C29: within a fire the retention engine is considered only after a
\* verified successful dump: a step that runs a retention pass (lists the
\* backups, selects or removes files, or returns the engine's error) is the
\* return of a run whose pg_dump had exited with success and whose artifact
\* was stat'ed and found not empty; no pass runs while pg_dump is running
\* or in a run that failed.
C29_RetentionOnlyAfterVerifiedDump ==
    [][(passes' # passes \/ selected' # selected \/ removed' # removed
          \/ applied' # applied \/ failed' # failed \/ (retErr' /\ ~retErr)) =>
         \E f \in Entries :
            /\ fpc[f] = "dumping" /\ fpc'[f] = "produced"
            /\ child[f] = "exit0"
            /\ result'[f] = "path"
            /\ \A g \in Entries \ {f} : fpc'[g] = fpc[g]]_vars

C29_Witness ==
    /\ HasRetention(retention)
    /\ passes = 1
    /\ fired["local"] = 2
    /\ fpc["local"] = "produced"
    /\ child["local"] = "exit0"
    /\ result["local"] = "err"


\* C31: no two job fires that run at the same time work on the same
\* artifact path: the paths two fires in flight create, upload from and
\* remove are distinct.
C31_ConcurrentFiresDistinctPaths ==
    \A f, g \in Entries :
       (f # g /\ InFlight(f) /\ InFlight(g) /\ path[f] # NoPath /\ path[g] # NoPath)
          => path[f] # path[g]


\* C32: an artifact's name ends in .age exactly when its content was
\* written through the encryption layer, and the suffix occurs once: for
\* the artifact of every fire that has created its file, local or staged
\* for upload, with and without an encryption key.
C32_AgeSuffixIffEncrypted ==
    \A f \in Entries :
       (InFlight(f) /\ path[f] # NoPath) =>
          LET name == FileName(f, remoteOpt, dbName, path[f][2],
                               IF f \in RemoteEntries THEN currentVersion[f] ELSE 0)
          IN  /\ HasSuffix(name, Age) <=> IsEncryptEnabled(ProducerKey(f, remoteOpt.key))
              /\ ~HasSuffix(name, Age \o Age)


\* C33: whenever the producer's Run returns an error after it has created
\* the destination file, at whichever checkpoint it fails (encryptor or age
\* writer creation, stderr pipe, process start, process failure, stat
\* failure, empty artifact), no file remains at the output path.
C33_ErrorAfterCreateLeavesNoArtifact ==
    [][\A f \in Entries :
          /\ (fpc[f] = "entered" /\ fpc'[f] = "produced" /\ result'[f] = "err"
                /\ disk' # disk)
               => ~disk'[path'[f]].exists
          /\ (fpc[f] = "dumping" /\ fpc'[f] = "produced" /\ result'[f] = "err")
               => ~disk'[path'[f]].exists]_vars


\* C34: when Run returns the path with a nil error, the compression and
\* encryption layers were flushed and closed completely (the artifact holds
\* the whole stream, trailer included); a failure while closing a writer
\* makes Run return an error.
C34_PathImpliesFlushed ==
    [][\A f \in Entries :
          (fpc[f] = "dumping" /\ fpc'[f] = "produced" /\ result'[f] = "path"
             /\ disk'[path[f]].exists)
            => disk'[path[f]].size = ClosedSize(written[f])]_vars


\* C35: a backup is skipped as "restore in progress" only if a restore holds
\* the lock: IsRestoreRunning returns true, to a fire of the daemon or to
\* the manual backup command, only while some process that acquired the lock
\* through LockForRestore has not released it, also when the daemon and the
\* command probe at the same time.
C35_SkipOnlyWhileRestoreHolds ==
    [][/\ (~mb.skipped /\ mb'.skipped) => holder \in Restores
       /\ \A f \in Entries :
            (fired'[f] # fired[f] /\ outcome'[f] = "skipped") => holder \in Restores]_vars


\* C36: when the notifier is invoked with the outcome of a scheduled fire,
\* the context passed to it has not been cancelled.
C36_NotifierContextLive == notifCtx # "cancelled"


\* C37: the retention pass that follows a successful local backup never
\* removes the artifact that backup has just produced, under keep-last-N
\* (N >= 1) and under keep-younger-than-D-days (D >= 1), the artifacts
\* already in the directory having modification times not later than the
\* new one's.
C37_RetentionKeepsNewArtifact ==
    [][\A f \in LocalEntries :
         (/\ fpc[f] = "dumping" /\ fpc'[f] = "produced" /\ result'[f] = "path"
          /\ passes' # passes
          /\ \A p \in DirPaths(OutputDir(f)) : disk[p].exists => disk[p].mtime <= now)
           => /\ disk'[path[f]].exists
              /\ \A i \in 1..Len(selected') : selected'[i].path # path[f]]_vars


\* C38: every file a retention run removes is a .sql.gz or .sql.gz.age
\* artifact of the configured database in the output directory: never an
\* artifact of another database whose name starts with "<configured
\* name>-", nor a file with another trailing suffix.
C38_RetentionRemovesOwnArtifactsOnly ==
    \A i \in 1..Len(removed) :
       \E t \in 0..MaxTime, suffix \in {<<>>, Age} :
          removed[i].path = dbName \o <<"-">> \o Itoa(t) \o SqlGz \o suffix


\* C39: when local backup is disabled in the configuration (local.enabled
\* is false), Start registers no local job and no local backup ever fires.
C39_DisabledLocalNeverFires ==
    "local" \notin schedCfg.enabled =>
        /\ registered \cap LocalEntries = {}
        /\ \A f \in LocalEntries : fired[f] = 0


\* C40: loading a YAML configuration while no REMOTE_* variable is set
\* leaves the list of remote providers as the file has it (no provider
\* added, enabled or modified), so that a file that validates on its own
\* validates after loading.
C40_LoadWithoutRemoteEnvKeepsProviders ==
    [][(cfgState = "file" /\ cfgState' # "file" /\ env = {})
         => /\ providers' = providers
            /\ validateRemoteProviders(providers) => cfgState' = "valid"]_vars

====
